---- MODULE Spec2Model ----
(***************************************************************************)
(* Model of the configuration merge of godel-golangci-lint-plugin          *)
(* (config/config.go): a base golangci-lint YAML document is merged with   *)
(* godel exclude matchers and with the plugin configuration by building    *)
(* and applying YAML patches.                                              *)
(*                                                                         *)
(* YAML documents are modelled as trees: a node is a string scalar, null,  *)
(* a sequence of nodes or an ordered mapping (a sequence of key/value      *)
(* entries).  Path strings are modelled as sequences of tokens in which    *)
(* "/" (or ".") is the separator character and every other token is a run *)
(* of characters of a path part, so that building a path by concatenation  *)
(* and parsing it back are distinct operations.  The text of a scalar is a *)
(* sequence of tokens too; it is never parsed.                             *)
(***************************************************************************)
EXTENDS Integers, Sequences, FiniteSets, TLC

-----------------------------------------------------------------------------
(* Bounds of the model *)

\* longest list drawn for the override field that is varied exhaustively
MaxList == 2
\* most names, and most paths, of a godel exclude matcher configuration
MaxMatchers == 2
\* the longest list of assets GetAssetInfo is called with
MaxAssets == 3

-----------------------------------------------------------------------------
(* State *)

VARIABLES
    entry,          \* the function under execution: "Default", "Merge" or "MapPatch"
    baseConfig,     \* argument: the base document
    matchers,       \* argument: the godel exclude matchers [names, paths]
    config,         \* argument: the plugin configuration (or NilCfg)
    argPath,        \* argument of applyAddOrSetYAMLMapPatch: the target path
    libAddToEmpty,  \* whether the patch library adds a key to a document with no content
    phase,          \* which merge of the Default entry runs: "matchers" or "plugin"
    pc,             \* position in the function under execution
    configBytes,    \* MergePluginConfigWithConfig: the configBytes parameter
    cfg,            \* MergePluginConfigWithConfig: the cfg parameter
    applied,        \* MergePluginConfigWithConfig: the local variable applied
    defaultConfig,  \* Default entry: the result of the first merge
    callRet,        \* what the last call of MergePluginConfigWithConfig returned
    ret,            \* what the entry function returned: [doc, err]
    log,            \* the steps executed so far: [call, step, in, out]
    frames,         \* concurrent callers: the frame of each caller's invocation
    assets,             \* GetAssetInfo: the assets parameter
    assetIdx,           \* GetAssetInfo: the index of currAsset in the loop
    golangCILintAssets, \* GetAssetInfo: the assets verified as golangci-lint
    configAssets,       \* GetAssetInfo: the assets verified as configuration
    configFromAsset,    \* GetAssetInfo: the content of the latest valid config asset
    assetRet,           \* GetAssetInfo: what it returned, [info, err]
    runIn,          \* RunGolangCILintWithConfig: its arguments and what the system does
    runPc,          \* RunGolangCILintWithConfig: position
    tmpFile,        \* the temporary file: [state, name, content]
    events,         \* what the run has done so far, in order
    runRet,         \* RunGolangCILintWithConfig: what it returned, [code, err]
    cmd,            \* the exec.Cmd of golangci-lint: [Stdout, Stderr]
    delegated       \* runDelegatedGolangCILintCommand: [args, pc, exitCode, err]

\* the state of one entry function running on its own
mergeVars == <<entry, baseConfig, matchers, config, argPath, libAddToEmpty, phase, pc,
               configBytes, cfg, applied, defaultConfig, callRet, ret, log>>

\* the state that a single entry function running on its own does not touch
loaderVars == <<assets, assetIdx, golangCILintAssets, configAssets, configFromAsset, assetRet>>
runnerVars == <<runIn, runPc, tmpFile, events, runRet, cmd, delegated>>
others == <<frames, loaderVars, runnerVars>>

\* the state outside group g before anything is called
IdleExcept(g) ==
    /\ IF g = "calls" THEN TRUE ELSE frames = <<>>
    /\ IF g = "loader" THEN TRUE
       ELSE /\ assets = <<>> /\ assetIdx = 0 /\ golangCILintAssets = <<>>
            /\ configAssets = <<>> /\ configFromAsset = [kind |-> "nil"]
            /\ assetRet = [err |-> "idle"]
    /\ IF g = "runner" THEN TRUE
       ELSE /\ runIn = [debugMode |-> FALSE] /\ runPc = "idle" /\ tmpFile = [state |-> "absent"]
            /\ events = <<>> /\ runRet = [err |-> "idle"]
            /\ cmd = [Stdout |-> "unset", Stderr |-> "unset"]
    /\ IF g = "lint" THEN TRUE ELSE delegated = [pc |-> "idle"]

vars == <<mergeVars, others>>

-----------------------------------------------------------------------------
(* YAML values *)

Str(s) == [kind |-> "str", s |-> s]
Null == [kind |-> "null"]
SeqN(items) == [kind |-> "seq", items |-> items]
Entry(k, v) == [key |-> k, val |-> v]
MapN(entries) == [kind |-> "map", entries |-> entries]

\* a nil or zero-length byte slice: a document with no content
EmptyDoc == [kind |-> "empty"]
\* bytes that are not YAML
BadDoc == [kind |-> "bad"]

NoErr == "ok"

\* the outcome of a patch operation that cannot be applied
Fail == [kind |-> "fail"]
\* no node: a key that a document does not have
Absent == [kind |-> "absent"]

IsMap(n) == n.kind = "map"
IsSeq(n) == n.kind = "seq"

Keys(m) == {m.entries[i].key : i \in 1..Len(m.entries)}
KeyIndex(m, k) == CHOOSE i \in 1..Len(m.entries) :
                     /\ m.entries[i].key = k
                     /\ \A j \in 1..(i-1) : m.entries[j].key # k
HasKey(m, k) == IsMap(m) /\ k \in Keys(m)
Get(m, k) == m.entries[KeyIndex(m, k)].val

\* the node of doc at the key path segs, or Absent
RECURSIVE NodeAt(_, _)
NodeAt(node, segs) ==
    IF segs = <<>> THEN node
    ELSE IF HasKey(node, Head(segs)) THEN NodeAt(Get(node, Head(segs)), Tail(segs))
    ELSE Absent

ItemsOf(node) == IF IsSeq(node) THEN node.items ELSE <<>>
EntriesOf(node) == IF IsMap(node) THEN node.entries ELSE <<>>


-----------------------------------------------------------------------------
(* Path strings: sequences of tokens.  "/" and "." are the separator        *)
(* characters; any other token of a path is a run of other characters.      *)

\* the characters of a mapping key; only SlashKey holds a separator
SlashKey == "custom/compiles"
Chars(k) == IF k = SlashKey THEN <<"custom", "/", "compiles">> ELSE <<k>>

RECURSIVE SplitFrom(_, _, _, _, _)
SplitFrom(s, sep, i, cur, acc) ==
    IF i > Len(s) THEN Append(acc, cur)
    ELSE IF s[i] = sep THEN SplitFrom(s, sep, i + 1, "", Append(acc, cur))
    ELSE SplitFrom(s, sep, i + 1, s[i], acc)

\* strings.Split(s, sep)
Split(s, sep) == SplitFrom(s, sep, 1, "", <<>>)

\* strings.ReplaceAll(s, old, new) for one-character old and new
ReplaceAll(s, old, new) == [i \in 1..Len(s) |-> IF s[i] = old THEN new ELSE s[i]]

\* yamlpatch.ParsePath: the root "/" is the one-element path <<"">>; any other
\* path is its "/"-separated parts, the first of which is the empty root part
ParsePath(str) ==
    IF str = <<>> \/ str[1] # "/" THEN [err |-> "path", path |-> <<>>]
    ELSE IF str = <<"/">> THEN [err |-> NoErr, path |-> <<"">>]
    ELSE [err |-> NoErr, path |-> Split(str, "/")]

MustParsePath(str) == ParsePath(str).path

yamlPatchPathToGoccyPathString(in) ==
    IF in # <<"/">> THEN <<"$">> \o ReplaceAll(in, "/", ".") ELSE <<"$">>

\* the selectors of a path string whose "."-separated parts are parts
Selectors(gp, parts) ==
    IF gp = <<>> \/ gp[1] # "$" \/ \E i \in 2..Len(parts) : parts[i] = ""
    THEN [err |-> "path", sel |-> <<>>]
    ELSE [err |-> NoErr, sel |-> Tail(parts)]

\* yaml.PathString: "$" followed by ".selector" parts
PathString(gp) == Selectors(gp, Split(gp, "."))

-----------------------------------------------------------------------------
(* Reading a node (goccy/go-yaml Path.ReadNode) *)

\* "found", "notfound" (yaml.ErrNotFoundNode) or "invalid" (a selector applied
\* to a node that is not a mapping)
RECURSIVE Filter(_, _)
Filter(node, sel) ==
    IF sel = <<>> THEN "found"
    ELSE IF ~IsMap(node) THEN "invalid"
    ELSE IF ~HasKey(node, Head(sel)) THEN "notfound"
    ELSE Filter(Get(node, Head(sel)), Tail(sel))

ReadNode(yamlBytes, sel) ==
    IF yamlBytes = BadDoc THEN "invalid"
    ELSE IF yamlBytes = EmptyDoc THEN "notfound"
    ELSE Filter(yamlBytes, sel)

\* lines 328-335, were every failed read taken as a node that is not there
nodeReadLenient(r) ==
    IF r = "found" THEN [err |-> NoErr, exists |-> TRUE] ELSE [err |-> NoErr, exists |-> FALSE]

\* lines 328-335: the outcome of yPath.ReadNode decides
nodeRead(r) ==
    IF r = "notfound" THEN [err |-> NoErr, exists |-> FALSE]
    ELSE IF r = "invalid" THEN [err |-> "read", exists |-> FALSE]
    ELSE [err |-> NoErr, exists |-> TRUE]

\* lines 323-328: yPath is the parsed path
checkNodeAt(yamlBytes, yPath) ==
    IF yPath.err # NoErr THEN [err |-> "parse", exists |-> FALSE]
    ELSE nodeRead(ReadNode(yamlBytes, yPath.sel))

checkNodeExists(yamlBytes, yamlPath) ==
    checkNodeAt(yamlBytes, PathString(yamlPatchPathToGoccyPathString(yamlPath)))

-----------------------------------------------------------------------------
(* Applying a patch (goccyyamlpatcher.New().Apply) *)

SetVal(m, k, v) == [m EXCEPT !.entries[KeyIndex(m, k)].val = v]

\* the mapping m with the patched child under k, unless patching the child failed
SetChild(m, k, child) == IF child = Fail THEN Fail ELSE SetVal(m, k, child)

\* Add: a new key goes to the end of its mapping, a "-" key appends to a
\* sequence, a key that is already there has its value replaced
RECURSIVE AddAt(_, _, _)
AddAt(node, segs, value) ==
    IF Len(segs) = 1 THEN
        IF IsMap(node) THEN
            IF HasKey(node, segs[1]) THEN SetVal(node, segs[1], value)
            ELSE MapN(Append(node.entries, Entry(segs[1], value)))
        ELSE IF IsSeq(node) /\ segs[1] = "-" THEN SeqN(Append(node.items, value))
        ELSE Fail
    ELSE IF HasKey(node, segs[1])
    THEN SetChild(node, segs[1], AddAt(Get(node, segs[1]), Tail(segs), value))
    ELSE Fail

\* Replace: the node must be there
RECURSIVE ReplaceAt(_, _, _)
ReplaceAt(node, segs, value) ==
    IF ~HasKey(node, segs[1]) THEN Fail
    ELSE IF Len(segs) = 1 THEN SetVal(node, segs[1], value)
    ELSE SetChild(node, segs[1], ReplaceAt(Get(node, segs[1]), Tail(segs), value))

Op(type, path, value) == [type |-> type, path |-> path, value |-> value]

ApplyOp(doc, op) ==
    IF doc = BadDoc \/ op.path = <<>> THEN Fail
    ELSE IF op.path = <<"">> THEN
        \* the root: the value becomes the document
        IF op.type = "add" \/ doc # EmptyDoc THEN op.value ELSE Fail
    ELSE IF doc = EmptyDoc THEN
        IF op.type = "add" /\ Len(op.path) = 2 /\ libAddToEmpty
        THEN MapN(<<Entry(op.path[2], op.value)>>)
        ELSE Fail
    ELSE IF op.type = "add" THEN AddAt(doc, Tail(op.path), op.value)
    ELSE ReplaceAt(doc, Tail(op.path), op.value)

\* the operations of patch from the i-th on, applied in order to doc; a failed
\* operation fails the rest
RECURSIVE ApplyFrom(_, _, _)
ApplyFrom(doc, patch, i) ==
    IF i > Len(patch) \/ doc = Fail THEN doc
    ELSE ApplyFrom(ApplyOp(doc, patch[i]), patch, i + 1)

Applied(out) ==
    IF out = Fail THEN [err |-> "apply", doc |-> EmptyDoc]
    ELSE [err |-> NoErr, doc |-> out]

\* patcher.Apply(yamlBytes, patch): the operations in order, or an error
Apply(yamlBytes, patch) == Applied(ApplyFrom(yamlBytes, patch, 1))

-----------------------------------------------------------------------------
(* Building patches (config.go) *)

\* a mapping key that is not a string
NonStringKeys == {"#1"}

\* the node a Go value marshals to: a yaml.MapSlice is an ordered mapping
MapSliceNode(mapValue) == MapN(mapValue)

RECURSIVE ObjectsLoop(_, _, _, _)
ObjectsLoop(segments, value, idx, result) ==
    IF idx < 0 THEN result
    ELSE IF idx = Len(segments) - 1
    THEN ObjectsLoop(segments, value, idx - 1, Append(result, value))
    ELSE ObjectsLoop(segments, value, idx - 1,
                     <<MapN(<<Entry(segments[idx + 2], result[1])>>)>> \o result)

\* lines 195-204: the loop over the segments, from the last to the first
objectsForSegments(segments, value) ==
    ObjectsLoop(segments, value, Len(segments) - 1, <<>>)

\* createObjectsToAddForPath, were it to wrap the value in no segment
createObjectsToAddForPathUnwrapped(yamlPath, value) ==
    [i \in 1..Len(Split(yamlPath, "/")) |-> value]

\* result[i+1] (Go index i) is value wrapped in the segments after index i
createObjectsToAddForPath(yamlPath, value) ==
    objectsForSegments(Split(yamlPath, "/"), value)

\* pathSoFar after the loop body, were it not reset at index 1
nextPathSoFarNoReset(idx, pathSoFar, part) ==
    pathSoFar \o (IF part = "" THEN <<"/">> ELSE <<"/", part>>)

\* pathSoFar after the loop body's "pathSoFar += "/" + part" at index idx
nextPathSoFar(idx, pathSoFar, part) ==
    (IF idx = 1 THEN <<>> ELSE pathSoFar) \o (IF part = "" THEN <<"/">> ELSE <<"/", part>>)

\* lines 234-258, the loop over parsedPath from index idx: it stops at the
\* first prefix that does not exist
RECURSIVE WalkPath(_, _, _, _)
RECURSIVE WalkChecked(_, _, _, _, _)
WalkPath(yamlBytes, parsedPath, idx, pathSoFar) ==
    IF idx >= Len(parsedPath)
    THEN [err |-> NoErr, furthestExistingIdx |-> -1, pathSoFar |-> pathSoFar]
    ELSE WalkChecked(yamlBytes, parsedPath, idx,
                     nextPathSoFar(idx, pathSoFar, parsedPath[idx + 1]),
                     checkNodeExists(yamlBytes,
                                     nextPathSoFar(idx, pathSoFar, parsedPath[idx + 1])))

WalkChecked(yamlBytes, parsedPath, idx, pathSoFar, chk) ==
    IF chk.err # NoErr
    THEN [err |-> chk.err, furthestExistingIdx |-> -1, pathSoFar |-> pathSoFar]
    ELSE IF chk.exists THEN WalkPath(yamlBytes, parsedPath, idx + 1, pathSoFar)
    ELSE [err |-> NoErr, furthestExistingIdx |-> idx, pathSoFar |-> pathSoFar]

\* the single Add, were it to put the fully wrapped value in place of the root
synthesisPatchAtRoot(objectsToAdd, walk) ==
    IF walk.err # NoErr THEN [err |-> walk.err, patch |-> <<>>]
    ELSE [err |-> NoErr, patch |-> <<Op("add", <<"">>, objectsToAdd[1])>>]

\* the single Add, were its value always the one wrapped in every segment
synthesisPatchWhole(objectsToAdd, walk) ==
    IF walk.err # NoErr THEN [err |-> walk.err, patch |-> <<>>]
    ELSE [err |-> NoErr, patch |-> <<Op("add", MustParsePath(walk.pathSoFar), objectsToAdd[1])>>]

\* lines 259-265: the single Add at the first missing prefix
synthesisPatch(objectsToAdd, walk) ==
    IF walk.err # NoErr THEN [err |-> walk.err, patch |-> <<>>]
    ELSE IF walk.furthestExistingIdx \notin 0..(Len(objectsToAdd) - 1)
    THEN [err |-> "panic", patch |-> <<>>]
    ELSE [err |-> NoErr,
          patch |-> <<Op("add", MustParsePath(walk.pathSoFar),
                         objectsToAdd[walk.furthestExistingIdx + 1])>>]

\* lines 218-265: chk is the existence check of the target path
addOrSetChecked(yamlBytes, yamlPath, setYAMLPatch, value, parsedPath, chk) ==
    IF chk.err # NoErr THEN [err |-> chk.err, patch |-> <<>>]
    ELSE IF chk.exists THEN [err |-> NoErr, patch |-> setYAMLPatch]
    ELSE synthesisPatch(createObjectsToAddForPath(yamlPath, value),
                        WalkPath(yamlBytes, parsedPath, 0, <<>>))

\* lines 210-218, were a path of the root alone let through
addOrSetParsedAnyLength(yamlBytes, yamlPath, setYAMLPatch, value, parsed) ==
    IF parsed.err # NoErr THEN [err |-> "parse", patch |-> <<>>]
    ELSE addOrSetChecked(yamlBytes, yamlPath, setYAMLPatch, value, parsed.path,
                         checkNodeExists(yamlBytes, yamlPath))

\* lines 210-218: parsed is the parsed target path
addOrSetParsed(yamlBytes, yamlPath, setYAMLPatch, value, parsed) ==
    IF parsed.err # NoErr THEN [err |-> "parse", patch |-> <<>>]
    ELSE IF Len(parsed.path) <= 1 THEN [err |-> "root", patch |-> <<>>]
    ELSE addOrSetChecked(yamlBytes, yamlPath, setYAMLPatch, value, parsed.path,
                         checkNodeExists(yamlBytes, yamlPath))

addOrSetYAMLPatch(yamlBytes, yamlPath, setYAMLPatch, value) ==
    addOrSetParsed(yamlBytes, yamlPath, setYAMLPatch, value, ParsePath(yamlPath))

\* the operation for one map item, were it an Add whatever the check found
mapItemOpAdd(chk, yamlPathToMapItem, mapItem) ==
    Op("add", MustParsePath(yamlPathToMapItem), mapItem.val)

\* lines 289-297: the operation for one map item
mapItemOp(chk, yamlPathToMapItem, mapItem) ==
    Op(IF chk.exists THEN "replace" ELSE "add", MustParsePath(yamlPathToMapItem), mapItem.val)

\* lines 276-298, the loop over mapValue from index idx
RECURSIVE SetPatchLoop(_, _, _, _, _)
RECURSIVE SetPatchItem(_, _, _, _, _, _, _)
SetPatchLoop(yamlBytes, yamlPath, mapValue, idx, setPatch) ==
    IF idx >= Len(mapValue) THEN [err |-> NoErr, patch |-> setPatch]
    ELSE IF mapValue[idx + 1].key \in NonStringKeys THEN [err |-> "key", patch |-> <<>>]
    ELSE SetPatchItem(yamlBytes, yamlPath, mapValue, idx, setPatch,
                      yamlPath \o <<"/">> \o Chars(mapValue[idx + 1].key),
                      checkNodeExists(yamlBytes,
                                      yamlPath \o <<"/">> \o Chars(mapValue[idx + 1].key)))

SetPatchItem(yamlBytes, yamlPath, mapValue, idx, setPatch, yamlPathToMapItem, chk) ==
    IF chk.err # NoErr THEN [err |-> chk.err, patch |-> <<>>]
    ELSE SetPatchLoop(yamlBytes, yamlPath, mapValue, idx + 1,
                      Append(setPatch, mapItemOp(chk, yamlPathToMapItem, mapValue[idx + 1])))

\* line 299, were the error of the loop over the map items not returned
setPatchUnchecked(yamlBytes, yamlPath, mapValue, set) ==
    addOrSetYAMLPatch(yamlBytes, yamlPath, set.patch, MapSliceNode(mapValue))

\* line 299: set is the result of the loop over the map items
setPatchOrSynthesis(yamlBytes, yamlPath, mapValue, set) ==
    IF set.err # NoErr THEN set
    ELSE addOrSetYAMLPatch(yamlBytes, yamlPath, set.patch, MapSliceNode(mapValue))

createSetYAMLMapValuePatch(yamlBytes, yamlPath, mapValue) ==
    IF Len(mapValue) = 0 THEN [err |-> NoErr, patch |-> <<>>]
    ELSE setPatchOrSynthesis(yamlBytes, yamlPath, mapValue,
                             SetPatchLoop(yamlBytes, yamlPath, mapValue, 0, <<>>))

\* the items of slice that the sequence items does not hold
RECURSIVE NotIn(_, _)
NotIn(slice, items) ==
    IF slice = <<>> THEN <<>>
    ELSE IF \E j \in 1..Len(items) : items[j] = Head(slice) THEN NotIn(Tail(slice), items)
    ELSE <<Head(slice)>> \o NotIn(Tail(slice), items)

\* createAddYAMLSlicePatch, were it to skip the items the target already holds
createAddYAMLSlicePatchDedup(yamlBytes, yamlPath, slice) ==
    addOrSetYAMLPatch(yamlBytes, yamlPath,
        [i \in 1..Len(NotIn(slice, ItemsOf(NodeAt(yamlBytes, Tail(Split(yamlPath, "/")))))) |->
            Op("add", MustParsePath(yamlPath \o <<"/", "-">>),
               NotIn(slice, ItemsOf(NodeAt(yamlBytes, Tail(Split(yamlPath, "/")))))[i])],
        SeqN(slice))

createAddYAMLSlicePatch(yamlBytes, yamlPath, slice) ==
    IF Len(slice) = 0 THEN [err |-> NoErr, patch |-> <<>>]
    ELSE addOrSetYAMLPatch(yamlBytes, yamlPath,
             [i \in 1..Len(slice) |->
                 Op("add", MustParsePath(yamlPath \o <<"/", "-">>), slice[i])],
             SeqN(slice))

\* lines 163-170 and 183-190: apply the patch unless creating it failed
applyCreated(yamlBytes, created) ==
    IF created.err # NoErr THEN [err |-> created.err, doc |-> EmptyDoc]
    ELSE Apply(yamlBytes, created.patch)

applyAddOrSetYAMLMapPatch(yamlBytes, yamlPath, mapValue) ==
    IF Len(mapValue) = 0 THEN [err |-> NoErr, doc |-> yamlBytes]
    ELSE applyCreated(yamlBytes, createSetYAMLMapValuePatch(yamlBytes, yamlPath, mapValue))

\* applyAddYAMLSlicePatch, were it to take the appended items out of the
\* list of enabled linters
applyAddYAMLSlicePatchExclusive(yamlBytes, yamlPath, slice) ==
    IF Len(slice) = 0 THEN [err |-> NoErr, doc |-> yamlBytes]
    ELSE IF NodeAt(yamlBytes, <<"linters", "enable">>) = Absent
    THEN applyCreated(yamlBytes, createAddYAMLSlicePatch(yamlBytes, yamlPath, slice))
    ELSE applyCreated(
             ApplyFrom(yamlBytes,
                 <<Op("replace", <<"", "linters", "enable">>,
                      SeqN(NotIn(ItemsOf(NodeAt(yamlBytes, <<"linters", "enable">>)), slice)))>>,
                 1),
             createAddYAMLSlicePatch(yamlBytes, yamlPath, slice))

\* applyAddYAMLSlicePatch, were neither it nor createAddYAMLSlicePatch to
\* return early on an empty slice
applyAddYAMLSlicePatchNoGuard(yamlBytes, yamlPath, slice) ==
    applyCreated(yamlBytes,
        addOrSetYAMLPatch(yamlBytes, yamlPath,
            [i \in 1..Len(slice) |->
                Op("add", MustParsePath(yamlPath \o <<"/", "-">>), slice[i])],
            SeqN(slice)))

applyAddYAMLSlicePatch(yamlBytes, yamlPath, slice) ==
    IF Len(slice) = 0 THEN [err |-> NoErr, doc |-> yamlBytes]
    ELSE applyCreated(yamlBytes, createAddYAMLSlicePatch(yamlBytes, yamlPath, slice))

-----------------------------------------------------------------------------
(* Plugin configuration and exclude matchers *)

\* a scalar whose text is the one token t
S(t) == Str(<<t>>)

StrNodes(list) == [i \in 1..Len(list) |-> Str(list[i])]

Rule(linters, path, text) ==
    [linters |-> linters, path |-> path, pathExcept |-> <<>>, text |-> text, source |-> <<>>]

OmitEmpty(k, text) == IF text = <<>> THEN <<>> ELSE <<Entry(k, Str(text))>>

\* the node a RulesConfig marshals to: its non-empty fields in declaration order
RuleNode(r) ==
    MapN((IF r.linters = <<>> THEN <<>> ELSE <<Entry("linters", SeqN(StrNodes(r.linters)))>>)
         \o OmitEmpty("path", r.path) \o OmitEmpty("path-except", r.pathExcept)
         \o OmitEmpty("text", r.text) \o OmitEmpty("source", r.source))

RuleNodes(rules) == [i \in 1..Len(rules) |-> RuleNode(rules[i])]

PluginConfig(enable, disable, settings, rules, paths, pathsExcept) ==
    [isNil |-> FALSE, enable |-> enable, disable |-> disable, settings |-> settings,
     rules |-> rules, paths |-> paths, pathsExcept |-> pathsExcept]

\* a nil *PluginConfig
NilCfg == [isNil |-> TRUE, enable |-> <<>>, disable |-> <<>>, settings |-> <<>>,
           rules |-> <<>>, paths |-> <<>>, pathsExcept |-> <<>>]

RECURSIVE NamePatterns(_)
NamePatterns(names) ==
    IF names = <<>> THEN <<>>
    ELSE << <<".+/">> \o Head(names) \o <<"$">>, <<"^">> \o Head(names) \o <<"$">> >>
         \o NamePatterns(Tail(names))

RECURSIVE PathPatterns(_)
PathPatterns(paths) ==
    IF paths = <<>> THEN <<>>
    ELSE << Head(paths) \o <<"/.*">>, <<"^">> \o Head(paths) \o <<"$">> >>
         \o PathPatterns(Tail(paths))

\* convertNamesPathConfigsToExclusionsPaths, were it to put the patterns of
\* the paths before those of the names
convertPathsBeforeNames(namesPathsCfg) ==
    PathPatterns(namesPathsCfg.paths) \o NamePatterns(namesPathsCfg.names)

convertNamesPathConfigsToExclusionsPaths(namesPathsCfg) ==
    IF Len(namesPathsCfg.names) = 0 /\ Len(namesPathsCfg.paths) = 0 THEN <<>>
    ELSE NamePatterns(namesPathsCfg.names) \o PathPatterns(namesPathsCfg.paths)

convertNamesPathConfigsToPluginsConfig(namesPathsCfg) ==
    IF Len(namesPathsCfg.names) = 0 /\ Len(namesPathsCfg.paths) = 0 THEN NilCfg
    ELSE PluginConfig(<<>>, <<>>, <<>>, <<>>,
                      convertNamesPathConfigsToExclusionsPaths(namesPathsCfg), <<>>)

\* MergeExcludeMatchersWithConfig, were it to leave the matchers out
MergeExcludeMatchersIgnored(yamlBytes, excludeMatchers) ==
    [configBytes |-> yamlBytes, cfg |-> NilCfg]

\* lines 37-39: the arguments of the call of MergePluginConfigWithConfig that
\* MergeExcludeMatchersWithConfig makes
MergeExcludeMatchersWithConfig(yamlBytes, excludeMatchers) ==
    [configBytes |-> yamlBytes,
     cfg |-> convertNamesPathConfigsToPluginsConfig(excludeMatchers)]

-----------------------------------------------------------------------------
(* MergePluginConfigWithConfig *)

PathVersion == <<"/", "version">>
PathEnable == <<"/", "linters", "/", "enable">>
PathDisable == <<"/", "linters", "/", "disable">>
PathSettings == <<"/", "linters", "/", "settings">>
PathRules == <<"/", "linters", "/", "exclusions", "/", "rules">>
PathPaths == <<"/", "linters", "/", "exclusions", "/", "paths">>
PathPathsExcept == <<"/", "linters", "/", "exclusions", "/", "paths-except">>

\* MergeSteps, were the settings merged before the lists
MergeStepsSettingsFirst ==
    <<"settings", "enable", "disable", "rules", "paths", "pathsExcept">>

\* the merge steps that follow the version defaulting, in program order
MergeSteps == <<"enable", "disable", "settings", "rules", "paths", "pathsExcept">>

StepIndex(step) == CHOOSE i \in 1..Len(MergeSteps) : MergeSteps[i] = step

\* versionChecked, were it to set the version of a document that has one
versionCheckedOverwrite(yamlBytes, chk) ==
    IF chk.err # NoErr THEN [err |-> chk.err, doc |-> EmptyDoc]
    ELSE Apply(yamlBytes, <<Op(IF chk.exists THEN "replace" ELSE "add",
                               MustParsePath(PathVersion), S("2"))>>)

\* lines 98-111: chk is the existence check of the version node
versionChecked(yamlBytes, chk) ==
    IF chk.err # NoErr THEN [err |-> chk.err, doc |-> EmptyDoc]
    ELSE IF ~chk.exists
    THEN Apply(yamlBytes, <<Op("add", MustParsePath(PathVersion), S("2"))>>)
    ELSE [err |-> NoErr, doc |-> yamlBytes]

versionDefault(yamlBytes) == versionChecked(yamlBytes, checkNodeExists(yamlBytes, PathVersion))

\* one merge step of MergePluginConfigWithConfig on the document in: [err, doc]
mergeStep(step, in, c) ==
    CASE step = "enable" -> applyAddYAMLSlicePatch(in, PathEnable, StrNodes(c.enable))
      [] step = "disable" -> applyAddYAMLSlicePatch(in, PathDisable, StrNodes(c.disable))
      [] step = "settings" -> applyAddOrSetYAMLMapPatch(in, PathSettings, c.settings)
      [] step = "rules" -> applyAddYAMLSlicePatch(in, PathRules, RuleNodes(c.rules))
      [] step = "paths" -> applyAddYAMLSlicePatch(in, PathPaths, StrNodes(c.paths))
      [] step = "pathsExcept" ->
             applyAddYAMLSlicePatch(in, PathPathsExcept, StrNodes(c.pathsExcept))

-----------------------------------------------------------------------------
(* Inputs *)

RECURSIVE SeqsUpTo(_, _)
\* the sequences over alphabet of length at most n
SeqsUpTo(alphabet, n) ==
    IF n = 0 THEN {<<>>}
    ELSE LET shorter == SeqsUpTo(alphabet, n - 1) IN
         shorter \cup {Append(q, a) : q \in shorter, a \in alphabet}

BaseRule == Rule(<< <<"compiles">> >>, <<>>, <<"test text for compiles">>)
BaseEnable == SeqN(<<S("compiles"), S("errcheck")>>)
BaseSettings ==
    MapN(<<Entry("custom",
                 MapN(<<Entry("compiles",
                              MapN(<<Entry("type", S("module")),
                                     Entry("description", S("compiles successfully"))>>))>>))>>)
BaseRun == MapN(<<Entry("relative-path-mode", S("gomod"))>>)
Default == Entry("default", S("none"))

\* the values of the "linters" key in the base documents
BaseLinters ==
    { MapN(<<Default>>),
      MapN(<<Default, Entry("enable", BaseEnable)>>),
      MapN(<<Default, Entry("settings", BaseSettings), Entry("enable", BaseEnable)>>),
      MapN(<<Default, Entry("settings", BaseSettings), Entry("enable", BaseEnable),
             Entry("exclusions",
                   MapN(<<Entry("rules", SeqN(<<RuleNode(BaseRule)>>)),
                          Entry("paths", SeqN(<<S("lib/base.go")>>))>>))>>),
      MapN(<<Default, Entry("enable", SeqN(<<>>)), Entry("exclusions", MapN(<<>>))>>),
      MapN(<<Entry("exclusions",
                   MapN(<<Entry("paths", SeqN(<<S("lib/base.go"), S("lib/gen.go")>>)),
                          Entry("paths-except", SeqN(<<S("lib/keep.go")>>))>>)),
             Entry("disable", SeqN(<<S("govet")>>))>>),
      MapN(<<Entry("settings", MapN(<<Entry("custom", S("off"))>>))>>),
      MapN(<<Default, Entry("enable", S("all")), Entry("settings", Null)>>),
      MapN(<<Default, Entry("exclusions", Null)>>),
      Null,
      S("none") }

OptEntry(k, present, v) == IF present THEN <<Entry(k, v)>> ELSE <<>>

\* a base document: version (Absent or its value), linters (Absent or its
\* value) and, when run is TRUE, a trailing "run" mapping
Doc(version, linters, run) ==
    MapN((IF version = Absent THEN <<>> ELSE <<Entry("version", version)>>)
         \o (IF linters = Absent THEN <<>> ELSE <<Entry("linters", linters)>>)
         \o OptEntry("run", run, BaseRun))

Bases ==
    {EmptyDoc, BadDoc}
    \cup {Doc(v, Absent, r) : v \in {Absent, S("2")}, r \in BOOLEAN}
    \cup {Doc(v, l, TRUE) : v \in {Absent, S("2")}, l \in BaseLinters}
    \cup {Doc(v, l, FALSE) : v \in {S("1"), Null},
                             l \in {MapN(<<Default, Entry("enable", BaseEnable)>>)}}

\* an item the base documents hold in the list of the field
Old(field) ==
    CASE field = "enable" -> <<"errcheck">>
      [] field = "disable" -> <<"govet">>
      [] field = "rules" -> BaseRule
      [] field = "paths" -> <<"lib/base.go">>
      [] field = "pathsExcept" -> <<"lib/keep.go">>

\* an item no base document holds
New(field) ==
    CASE field = "enable" -> <<"copyloopvar">>
      [] field = "disable" -> <<"asasalint">>
      [] field = "rules" -> Rule(<< <<"revive">> >>, <<"_test\\.go">>, <<>>)
      [] field = "paths" -> <<"lib/bad.go">>
      [] field = "pathsExcept" -> <<"lib/other.go">>

\* the items an override list of a field is drawn from
Alphabet(field) == {Old(field), New(field)}

ListFields == {"enable", "disable", "rules", "paths", "pathsExcept"}

ErrcheckSettings == MapN(<<Entry("check-blank", S("true"))>>)
CompilesOverride == MapN(<<Entry("type", S("plugin")), Entry("new-key", S("new-value"))>>)

\* the override settings maps
SettingsMaps ==
    { <<Entry("errcheck", ErrcheckSettings)>>,
      <<Entry("custom", MapN(<<Entry("mylinter", S("on"))>>))>>,
      <<Entry("errcheck", ErrcheckSettings), Entry("custom", S("off"))>>,
      <<Entry("custom", MapN(<<Entry("compiles", CompilesOverride)>>)),
        Entry("revive", Null)>>,
      <<Entry(SlashKey, CompilesOverride)>>,
      <<Entry("custom", MapN(<<Entry("compiles", MapN(<<Entry("type", S("plugin"))>>))>>)),
        Entry(SlashKey, CompilesOverride)>>,
      <<Entry("custom", MapN(<<Entry("mylinter", S("on"))>>)),
        Entry(SlashKey, CompilesOverride)>>,
      <<Entry("errcheck", ErrcheckSettings), Entry("#1", S("one"))>> }

EmptyCfg == PluginConfig(<<>>, <<>>, <<>>, <<>>, <<>>, <<>>)

Pick(field, on) == IF on THEN <<New(field)>> ELSE <<>>

\* every combination of empty and non-empty fields
CombinedCfgs ==
    { PluginConfig(Pick("enable", b[1]), Pick("disable", b[2]),
                   IF b[3] THEN <<Entry("errcheck", ErrcheckSettings)>> ELSE <<>>,
                   Pick("rules", b[4]), Pick("paths", b[5]), Pick("pathsExcept", b[6]))
      : b \in [1..6 -> BOOLEAN] }

\* one list field with every list up to MaxList, the other fields empty
VariedCfgs ==
    UNION { {[EmptyCfg EXCEPT ![f] = l] : l \in SeqsUpTo(Alphabet(f), MaxList)}
            : f \in ListFields }

SettingsCfgs == { [EmptyCfg EXCEPT !.settings = m] : m \in SettingsMaps }

\* the override of the test "full plugin config merges with default Palantir
\* config": it disables compiles, which the base documents enable
FullCfg ==
    PluginConfig(Pick("enable", TRUE), << <<"compiles">> >>,
                 <<Entry("errcheck", ErrcheckSettings)>>,
                 Pick("rules", TRUE), Pick("paths", TRUE), Pick("pathsExcept", TRUE))

Cfgs == {NilCfg, FullCfg} \cup CombinedCfgs \cup VariedCfgs \cup SettingsCfgs

\* the plugin configurations of the Default entry
DefaultCfgs ==
    { NilCfg, EmptyCfg,
      [EmptyCfg EXCEPT !.paths = << <<"lib/bad.go">> >>],
      [EmptyCfg EXCEPT !.paths = << <<"lib/bad.go">>, <<"lib/base.go">> >>],
      PluginConfig(Pick("enable", TRUE), Pick("disable", TRUE),
                   <<Entry("errcheck", ErrcheckSettings)>>,
                   Pick("rules", TRUE), Pick("paths", TRUE), Pick("pathsExcept", TRUE)) }

NoMatchers == [names |-> <<>>, paths |-> <<>>]

Matchers ==
    { [names |-> n, paths |-> q] :
        n \in SeqsUpTo({<<".*\\.conjure.go">>, <<"vendor">>}, MaxMatchers),
        q \in SeqsUpTo({<<"internal/generated">>}, MaxMatchers) }

\* the target paths and maps applyAddOrSetYAMLMapPatch is called with directly
MapPatchPaths ==
    { PathSettings,
      <<"/", "linters", "/", "settings", "/", "custom">>,
      <<"/", "path", "/", "to", "/", "map">> }

MapPatchMaps ==
    SettingsMaps \cup
    { <<>>,
      <<Entry("compiles", CompilesOverride)>>,
      <<Entry("key-1", S("value-1")), Entry("key-2", S("2")),
        Entry("key-3", MapN(<<Entry("inner-key-1", S("inner-value-1"))>>))>> }

-----------------------------------------------------------------------------
(* The state machine *)

Ret(doc, e) == [doc |-> doc, err |-> e]
NoRet == Ret(EmptyDoc, "none")

LogEntry(step, in, out, e) ==
    [call |-> phase, step |-> step, in |-> in, out |-> out, err |-> e]

Init ==
    /\ entry \in {"Default", "Merge", "MapPatch"}
    /\ baseConfig \in Bases
    /\ matchers \in (IF entry = "Default" THEN Matchers ELSE {NoMatchers})
    /\ config \in (CASE entry = "Default" -> DefaultCfgs
                     [] entry = "Merge" -> Cfgs
                     [] entry = "MapPatch" ->
                            {[EmptyCfg EXCEPT !.settings = m] : m \in MapPatchMaps})
    /\ argPath \in (IF entry = "MapPatch" THEN MapPatchPaths ELSE {<<>>})
    /\ libAddToEmpty \in (IF baseConfig = EmptyDoc THEN BOOLEAN ELSE {TRUE})
    /\ phase = "none"
    /\ pc = "start"
    /\ configBytes = EmptyDoc
    /\ cfg = NilCfg
    /\ applied = EmptyDoc
    /\ defaultConfig = EmptyDoc
    /\ callRet = NoRet
    /\ ret = NoRet
    /\ log = <<>>
    /\ IdleExcept("merge")

Inputs == <<entry, baseConfig, matchers, config, argPath, libAddToEmpty>>

\* DefaultPalantirConfigMergedWithExcludeMatchersAndPluginConfig calls
\* MergeExcludeMatchersWithConfig(baseConfig, matchers)
CallDefault ==
    /\ entry = "Default" /\ pc = "start"
    /\ phase' = "matchers"
    /\ \E call \in {MergeExcludeMatchersWithConfig(baseConfig, matchers)} :
       /\ configBytes' = call.configBytes
       /\ cfg' = call.cfg
    /\ pc' = "version"
    /\ UNCHANGED <<others, Inputs, applied, defaultConfig, callRet, ret, log>>

\* a caller calls MergePluginConfigWithConfig(baseConfig, config)
CallMerge ==
    /\ entry = "Merge" /\ pc = "start"
    /\ phase' = "plugin"
    /\ configBytes' = baseConfig
    /\ cfg' = config
    /\ pc' = "version"
    /\ UNCHANGED <<others, Inputs, applied, defaultConfig, callRet, ret, log>>

\* a caller calls applyAddOrSetYAMLMapPatch(baseConfig, argPath, config.settings)
CallMapPatch ==
    /\ entry = "MapPatch" /\ pc = "start"
    /\ \E r \in {applyAddOrSetYAMLMapPatch(baseConfig, argPath, config.settings)} :
       /\ ret' = Ret(r.doc, r.err)
       /\ log' = Append(log, LogEntry("mapPatch", baseConfig, r.doc, r.err))
    /\ pc' = "done"
    /\ UNCHANGED <<others, Inputs, phase, configBytes, cfg, applied, defaultConfig, callRet>>

\* MergePluginConfigWithConfig returns r to its caller
MergeReturn(r) ==
    /\ callRet' = r
    /\ pc' = "returned"

\* mergeFailure, were it to return the document of the completed steps
mergeFailurePartial(e, partial) == Ret(partial, e)

\* "return nil, err": the partial document is dropped
mergeFailure(e, partial) == Ret(EmptyDoc, e)

\* lines 98-118: the version default, the nil check and "applied := configBytes"
VersionStep ==
    /\ pc = "version"
    /\ \E r \in {versionDefault(configBytes)} :
       /\ log' = Append(log, LogEntry("version", configBytes, r.doc, r.err))
       /\ IF r.err # NoErr
          THEN /\ MergeReturn(mergeFailure(r.err, configBytes))
               /\ UNCHANGED <<configBytes, applied>>
          ELSE /\ configBytes' = r.doc
               /\ IF cfg.isNil
                  THEN MergeReturn(Ret(r.doc, NoErr)) /\ UNCHANGED applied
                  ELSE applied' = r.doc /\ pc' = MergeSteps[1] /\ UNCHANGED callRet
    /\ UNCHANGED <<others, Inputs, phase, cfg, defaultConfig, ret>>

\* lines 120-150: one "applied, err = apply...(applied, ...)" and its error check
MergeStep ==
    /\ pc \in {MergeSteps[i] : i \in 1..Len(MergeSteps)}
    /\ \E r \in {mergeStep(pc, applied, cfg)} :
       /\ log' = Append(log, LogEntry(pc, applied, r.doc, r.err))
       /\ applied' = r.doc
       /\ IF r.err # NoErr THEN MergeReturn(mergeFailure(r.err, applied))
          ELSE IF StepIndex(pc) = Len(MergeSteps) THEN MergeReturn(Ret(r.doc, NoErr))
          ELSE pc' = MergeSteps[StepIndex(pc) + 1] /\ UNCHANGED callRet
    /\ UNCHANGED <<others, Inputs, phase, configBytes, cfg, defaultConfig, ret>>

\* the caller of MergePluginConfigWithConfig gets its result
MergeDone ==
    /\ entry = "Merge" /\ pc = "returned"
    /\ ret' = callRet
    /\ pc' = "done"
    /\ UNCHANGED <<others, Inputs, phase, configBytes, cfg, applied, defaultConfig, callRet, log>>

\* "return nil, errors.Wrap(err, ...)" of the Default entry
defaultFailure(e, partial) == Ret(EmptyDoc, e)

\* lines 45-50: the first merge returned; on success the plugin configuration
\* is merged into its result
DefaultAfterMatchers ==
    /\ entry = "Default" /\ pc = "returned" /\ phase = "matchers"
    /\ IF callRet.err # NoErr
       THEN /\ ret' = defaultFailure(callRet.err, callRet.doc)
            /\ pc' = "done"
            /\ UNCHANGED <<phase, configBytes, cfg, defaultConfig>>
       ELSE /\ defaultConfig' = callRet.doc
            /\ phase' = "plugin"
            /\ configBytes' = callRet.doc
            /\ cfg' = config
            /\ pc' = "version"
            /\ UNCHANGED ret
    /\ UNCHANGED <<others, Inputs, applied, callRet, log>>

\* lines 51-55: the second merge returned
DefaultAfterPlugin ==
    /\ entry = "Default" /\ pc = "returned" /\ phase = "plugin"
    /\ ret' = IF callRet.err # NoErr THEN defaultFailure(callRet.err, defaultConfig)
              ELSE callRet
    /\ pc' = "done"
    /\ UNCHANGED <<others, Inputs, phase, configBytes, cfg, applied, defaultConfig, callRet, log>>

Next ==
    \/ CallDefault
    \/ CallMerge
    \/ CallMapPatch
    \/ VersionStep
    \/ MergeStep
    \/ MergeDone
    \/ DefaultAfterMatchers
    \/ DefaultAfterPlugin

Spec == Init /\ [][Next]_vars

-----------------------------------------------------------------------------
(* checkNodeExists called on its own *)

\* the paths checkNodeExists is called with: the root, the targets of the
\* merge, paths below them, and a path that ends in a separator
CheckPaths ==
    { <<"/">>, PathVersion, <<"/", "linters">>, PathEnable, PathSettings, PathRules,
      <<"/", "linters", "/", "settings", "/", "custom", "/", "compiles">>,
      <<"/", "run", "/", "relative-path-mode", "/", "value">>,
      <<"/", "path", "/", "to", "/", "map">>,
      <<"/", "linters", "/">> }

InitCheck ==
    /\ entry = "Check"
    /\ baseConfig \in Bases
    /\ matchers = NoMatchers
    /\ config = NilCfg
    /\ argPath \in CheckPaths
    /\ libAddToEmpty = TRUE
    /\ phase = "none"
    /\ pc = "start"
    /\ configBytes = EmptyDoc
    /\ cfg = NilCfg
    /\ applied = EmptyDoc
    /\ defaultConfig = EmptyDoc
    /\ callRet = NoRet
    /\ ret = NoRet
    /\ log = <<>>
    /\ IdleExcept("merge")

\* a caller calls checkNodeExists(baseConfig, argPath)
CallCheck ==
    /\ entry = "Check" /\ pc = "start"
    /\ \E r \in {checkNodeExists(baseConfig, argPath)} :
          ret' = [exists |-> r.exists, err |-> r.err]
    /\ pc' = "done"
    /\ UNCHANGED <<others, Inputs, phase, configBytes, cfg, applied, defaultConfig, callRet, log>>

SpecCheck == InitCheck /\ [][CallCheck]_vars

-----------------------------------------------------------------------------
(* addOrSetYAMLPatch called on its own *)

InitBuild ==
    /\ entry = "Build"
    /\ baseConfig \in Bases
    /\ matchers = NoMatchers
    /\ config \in {[EmptyCfg EXCEPT !.enable = l] :
                      l \in SeqsUpTo(Alphabet("enable"), MaxList) \ {<<>>}}
    /\ argPath \in CheckPaths
    /\ libAddToEmpty = TRUE
    /\ phase = "none"
    /\ pc = "start"
    /\ configBytes = EmptyDoc
    /\ cfg = NilCfg
    /\ applied = EmptyDoc
    /\ defaultConfig = EmptyDoc
    /\ callRet = NoRet
    /\ ret = NoRet
    /\ log = <<>>
    /\ IdleExcept("merge")

\* a caller calls addOrSetYAMLPatch(baseConfig, argPath, setYAMLPatch, value)
\* with the list config.enable and the patch that appends its items
CallBuild ==
    /\ entry = "Build" /\ pc = "start"
    /\ callRet' = addOrSetYAMLPatch(baseConfig, argPath,
                      [i \in 1..Len(config.enable) |->
                          Op("add", MustParsePath(argPath \o <<"/", "-">>),
                             StrNodes(config.enable)[i])],
                      SeqN(StrNodes(config.enable)))
    /\ pc' = "built"
    /\ UNCHANGED <<others, Inputs, phase, configBytes, cfg, applied, defaultConfig, ret, log>>

\* the caller applies the patch unless building it failed
ApplyBuilt ==
    /\ entry = "Build" /\ pc = "built"
    /\ ret' = applyCreated(baseConfig, callRet)
    /\ pc' = "done"
    /\ UNCHANGED <<others, Inputs, phase, configBytes, cfg, applied, defaultConfig, callRet, log>>

SpecBuild == InitBuild /\ [][CallBuild \/ ApplyBuilt]_vars

-----------------------------------------------------------------------------
(* Several callers of MergePluginConfigWithConfig at a time.  The function   *)
(* has no package-level variable: what an invocation reads and writes are    *)
(* its parameters and its local variable applied, held in the caller's frame *)

\* no entry function is running on its own
MergeIdle ==
    /\ entry = "none" /\ baseConfig = EmptyDoc /\ matchers = NoMatchers
    /\ config = NilCfg /\ argPath = <<>> /\ libAddToEmpty = TRUE
    /\ phase = "none" /\ pc = "idle"
    /\ configBytes = EmptyDoc /\ cfg = NilCfg /\ applied = EmptyDoc
    /\ defaultConfig = EmptyDoc /\ callRet = NoRet /\ ret = NoRet /\ log = <<>>

Callers == {"a", "b"}

\* the documents and override configurations the callers pass
CallBases ==
    { BadDoc,
      Doc(Absent, Absent, FALSE),
      Doc(S("2"), MapN(<<Default, Entry("enable", BaseEnable)>>), TRUE),
      Doc(Absent, MapN(<<Default, Entry("exclusions", Null)>>), TRUE) }

CallCfgs ==
    { NilCfg, EmptyCfg,
      [EmptyCfg EXCEPT !.enable = << <<"errcheck">> >>],
      [EmptyCfg EXCEPT !.settings = <<Entry("errcheck", ErrcheckSettings), Entry("#1", S("one"))>>],
      PluginConfig(Pick("enable", TRUE), Pick("disable", TRUE),
                   <<Entry("errcheck", ErrcheckSettings)>>,
                   Pick("rules", TRUE), Pick("paths", TRUE), Pick("pathsExcept", TRUE)) }

\* the frame of an invocation that has not started: base and cfg are the
\* caller's values, seen the callers whose invocation had returned at the call
Frame(b, c) ==
    [base |-> b, cfg |-> c, pc |-> "start", configBytes |-> EmptyDoc,
     applied |-> EmptyDoc, seen |-> {}, ret |-> NoRet]

InitCalls ==
    /\ MergeIdle
    /\ IdleExcept("calls")
    /\ frames \in [Callers -> {Frame(b, c) : b \in CallBases, c \in CallCfgs}]

\* localOf, were applied one variable shared by all invocations
localShared(c) == "a"

\* the frame that holds the local variable applied of the invocation of c
localOf(c) == c

\* versionTarget, were line 101 to write through to the caller's document
versionTargetBase == "base"

\* line 101 assigns the result of the version patch to the parameter configBytes
versionTarget == "configBytes"

\* the frame f after line 101 assigned doc
afterVersion(f, doc) == [f EXCEPT ![versionTarget] = doc]

\* caller c calls MergePluginConfigWithConfig(base, cfg)
FrameCall(c) ==
    /\ frames[c].pc = "start"
    /\ frames' = [frames EXCEPT ![c].pc = "version",
                                ![c].configBytes = frames[c].base,
                                ![c].seen = {d \in Callers : frames[d].pc = "done"}]
    /\ UNCHANGED <<mergeVars, loaderVars, runnerVars>>

\* lines 98-118 in the invocation of c
FrameVersion(c) ==
    /\ frames[c].pc = "version"
    /\ \E r \in {versionDefault(frames[c].configBytes)} :
       \E f \in {afterVersion(frames[c], r.doc)} :
          frames' =
             IF r.err # NoErr
             THEN [frames EXCEPT ![c].ret = mergeFailure(r.err, frames[c].configBytes),
                                 ![c].pc = "done"]
             ELSE IF f.cfg.isNil
             THEN [frames EXCEPT ![c] = [f EXCEPT !.ret = Ret(f.configBytes, NoErr),
                                                   !.pc = "done"]]
             ELSE [frames EXCEPT ![c] = [f EXCEPT !.pc = MergeSteps[1]],
                                 ![localOf(c)].applied = f.configBytes]
    /\ UNCHANGED <<mergeVars, loaderVars, runnerVars>>

\* lines 120-150 in the invocation of c: one step and its error check
FrameStep(c) ==
    /\ frames[c].pc \in {MergeSteps[i] : i \in 1..Len(MergeSteps)}
    /\ \E r \in {mergeStep(frames[c].pc, frames[localOf(c)].applied, frames[c].cfg)} :
          frames' =
             IF r.err # NoErr
             THEN [frames EXCEPT ![localOf(c)].applied = r.doc,
                                 ![c].ret = mergeFailure(r.err, r.doc),
                                 ![c].pc = "done"]
             ELSE IF StepIndex(frames[c].pc) = Len(MergeSteps)
             THEN [frames EXCEPT ![localOf(c)].applied = r.doc,
                                 ![c].ret = Ret(r.doc, NoErr),
                                 ![c].pc = "done"]
             ELSE [frames EXCEPT ![localOf(c)].applied = r.doc,
                                 ![c].pc = MergeSteps[StepIndex(frames[c].pc) + 1]]
    /\ UNCHANGED <<mergeVars, loaderVars, runnerVars>>

SpecCalls ==
    InitCalls /\ [][\E c \in Callers : FrameCall(c) \/ FrameVersion(c) \/ FrameStep(c)]_vars

-----------------------------------------------------------------------------
(* cmd/internal/assetloader: GetAssetInfo *)

\* a nil byte slice
NilBytes == [kind |-> "nil"]

VersionPrefix == "golangci-lint has version "

\* the assets the plugin may be configured with: for each path, whether running
\* it succeeds and what it prints, and whether it can be read and what it holds
AssetFiles ==
    { [path |-> "golangci-lint", runs |-> TRUE, output |-> <<VersionPrefix, "2.1.6">>,
       readable |-> TRUE, content |-> BadDoc],
      [path |-> "golangci-lint-1", runs |-> TRUE, output |-> <<VersionPrefix, "1.64">>,
       readable |-> TRUE, content |-> BadDoc],
      [path |-> "gofmt", runs |-> TRUE, output |-> <<"usage: gofmt">>,
       readable |-> TRUE, content |-> BadDoc],
      [path |-> "config.yml", runs |-> FALSE, output |-> <<>>,
       readable |-> TRUE, content |-> Doc(S("2"), Absent, FALSE)],
      [path |-> "empty.yml", runs |-> FALSE, output |-> <<>>,
       readable |-> TRUE, content |-> EmptyDoc],
      [path |-> "wrapper.sh", runs |-> TRUE, output |-> <<VersionPrefix, "2.1.6">>,
       readable |-> TRUE, content |-> Doc(Absent, Absent, TRUE)],
      [path |-> "missing", runs |-> FALSE, output |-> <<>>,
       readable |-> FALSE, content |-> BadDoc] }

\* TRUE iff the returned error is nil
verifyGolangCILintAsset(asset) ==
    asset.runs /\ asset.output # <<>> /\ Head(asset.output) = VersionPrefix

\* the content returned, or NilBytes when an error is returned
verifyConfigAsset(asset) ==
    IF ~asset.readable \/ asset.content = BadDoc THEN NilBytes ELSE asset.content

AssetInfo(path, provided) == [GolangCILintAssetPath |-> path, ConfigProvidedByAsset |-> provided]

\* GetAssetInfo accepting the first of several golangci-lint assets
assetInfoFirst(lints, configs, provided) ==
    IF Len(lints) = 0 THEN [info |-> AssetInfo("", NilBytes), err |-> "no golangci-lint asset"]
    ELSE IF Len(configs) > 1
    THEN [info |-> AssetInfo(lints[1], NilBytes), err |-> "multiple config assets"]
    ELSE IF Len(configs) > 0 THEN [info |-> AssetInfo(lints[1], provided), err |-> NoErr]
    ELSE [info |-> AssetInfo(lints[1], NilBytes), err |-> NoErr]

\* the checks after the loop and what GetAssetInfo returns
assetInfoChecked(lints, configs, provided) ==
    IF Len(lints) = 0 THEN [info |-> AssetInfo("", NilBytes), err |-> "no golangci-lint asset"]
    ELSE IF Len(lints) # 1
    THEN [info |-> AssetInfo("", NilBytes), err |-> "multiple golangci-lint assets"]
    ELSE IF Len(configs) > 1
    THEN [info |-> AssetInfo(lints[1], NilBytes), err |-> "multiple config assets"]
    ELSE IF Len(configs) > 0 THEN [info |-> AssetInfo(lints[1], provided), err |-> NoErr]
    ELSE [info |-> AssetInfo(lints[1], NilBytes), err |-> NoErr]

InitAssets ==
    /\ MergeIdle
    /\ IdleExcept("loader")
    /\ assets \in SeqsUpTo(AssetFiles, MaxAssets)
    /\ assetIdx = 1
    /\ golangCILintAssets = <<>>
    /\ configAssets = <<>>
    /\ configFromAsset = NilBytes
    /\ assetRet = [info |-> AssetInfo("", NilBytes), err |-> "running"]

\* one iteration of the loop over assets
VerifyAsset ==
    /\ assetRet.err = "running"
    /\ assetIdx <= Len(assets)
    /\ golangCILintAssets' =
          IF verifyGolangCILintAsset(assets[assetIdx])
          THEN Append(golangCILintAssets, assets[assetIdx].path) ELSE golangCILintAssets
    /\ \E read \in {verifyConfigAsset(assets[assetIdx])} :
          IF read # NilBytes
          THEN /\ configAssets' = Append(configAssets, assets[assetIdx].path)
               /\ configFromAsset' = read
          ELSE UNCHANGED <<configAssets, configFromAsset>>
    /\ assetIdx' = assetIdx + 1
    /\ UNCHANGED <<mergeVars, frames, runnerVars, assets, assetRet>>

ReturnAssetInfo ==
    /\ assetRet.err = "running"
    /\ assetIdx > Len(assets)
    /\ assetRet' = assetInfoChecked(golangCILintAssets, configAssets, configFromAsset)
    /\ UNCHANGED <<mergeVars, frames, runnerVars, assets, assetIdx, golangCILintAssets,
                   configAssets, configFromAsset>>

SpecAssets == InitAssets /\ [][VerifyAsset \/ ReturnAssetInfo]_vars

-----------------------------------------------------------------------------
(* runner: RunGolangCILintWithConfig *)

\* the names os.CreateTemp may give the file
TempNames == {"/tmp/golangci-lint-plugin-config-1.yml", "/tmp/golangci-lint-plugin-config-2.yml"}

\* what ExitCode() gives for a golangci-lint process that ran: its exit
\* status, or -1 when a signal ended it
ExitCodes == {-1, 0, 1, 3}

\* the io.Writers a caller may pass
Writers == {"os.Stdout", "os.Stderr"}

\* the arguments RunGolangCILintWithConfig is called with
RunInputs ==
    [ preConfigArgs : {<<>>, <<"run">>},
      postConfigArgs : {<<>>, <<"./...">>, <<"--fix", "./...">>},
      configContent : {Doc(S("2"), Absent, FALSE), Doc(S("2"), Absent, TRUE)},
      stdout : Writers,
      stderr : Writers,
      debugMode : BOOLEAN ]

Event(ev, args) == [ev |-> ev, args |-> args, file |-> tmpFile]

\* the value the runner returns, were every failure to give 1
runnerCodeFlat(started, status) == IF started /\ status = 0 THEN 0 ELSE 1

\* lines 62-70: the value the runner returns for a process that could not be
\* started, or that was started and exited with status
runnerCode(started, status) == IF ~started THEN 1 ELSE status

\* the arguments of golangci-lint with the config flag after the others
lintArgsConfigLast(pre, path, post) == pre \o post \o <<"--config", path>>

\* the arguments golangci-lint is run with
lintArgs(pre, path, post) == (pre \o <<"--config", path>>) \o post

InitRunner ==
    /\ MergeIdle
    /\ IdleExcept("runner")
    /\ runIn \in RunInputs
    /\ runPc = "create"
    /\ tmpFile = [state |-> "absent", name |-> "", content |-> EmptyDoc]
    /\ events = <<>>
    /\ runRet = [code |-> 0, err |-> NoErr]
    /\ cmd = [Stdout |-> "unset", Stderr |-> "unset"]

\* writeTempFile: os.CreateTemp
CreateTemp ==
    /\ runPc = "create"
    /\ \/ \E name \in TempNames :
             /\ tmpFile' = [state |-> "open", name |-> name, content |-> EmptyDoc]
             /\ runPc' = "write"
             /\ UNCHANGED <<events, runRet>>
       \/ /\ runRet' = [code |-> 0, err |-> "failed to write config file"]
          /\ events' = Append(events, Event("create failed", <<>>))
          /\ runPc' = "done"
          /\ UNCHANGED tmpFile
    /\ UNCHANGED <<mergeVars, frames, loaderVars, runIn, cmd, delegated>>

\* writeTempFile: tmpFile.Write; runRet.err holds rErr until the function returns
WriteTemp ==
    /\ runPc = "write"
    /\ \/ /\ tmpFile' = [tmpFile EXCEPT !.content = runIn.configContent]
          /\ UNCHANGED <<events, runRet>>
       \/ /\ \E partial \in {EmptyDoc, BadDoc} : tmpFile' = [tmpFile EXCEPT !.content = partial]
          /\ events' = Append(events, Event("write failed", <<>>))
          /\ runRet' = [code |-> 0, err |-> "failed to write to temp file"]
    /\ runPc' = "close"
    /\ UNCHANGED <<mergeVars, frames, loaderVars, runIn, cmd, delegated>>

\* writeTempFile: the deferred tmpFile.Close, then the error check of the caller
CloseTemp ==
    /\ runPc = "close"
    /\ tmpFile' = [tmpFile EXCEPT !.state = "closed"]
    /\ \/ /\ UNCHANGED <<events, runRet>>
          /\ runPc' = IF runRet.err = NoErr THEN "start" ELSE "done"
       \/ /\ events' = Append(events, Event("close failed", <<>>))
          /\ runRet' = [code |-> 0, err |-> "failed to write config file"]
          /\ runPc' = "done"
    /\ UNCHANGED <<mergeVars, frames, loaderVars, runIn, cmd, delegated>>

\* RunGolangCILint: cmd.Run starts the process, or fails to
StartLint ==
    /\ runPc = "start"
    /\ events' = Append(events,
          Event("start", lintArgs(runIn.preConfigArgs, tmpFile.name, runIn.postConfigArgs)))
    /\ cmd' = [Stdout |-> runIn.stdout, Stderr |-> runIn.stderr]
    /\ \/ /\ runPc' = "running"
          /\ UNCHANGED runRet
       \/ /\ runPc' = "remove"
          /\ runRet' = [code |-> runnerCode(FALSE, 0), err |-> NoErr]
    /\ UNCHANGED <<mergeVars, frames, loaderVars, runIn, tmpFile, delegated>>

\* the golangci-lint process finishes
LintExit ==
    /\ runPc = "running"
    /\ \E status \in ExitCodes :
          /\ runRet' = [code |-> runnerCode(TRUE, status), err |-> NoErr]
          /\ events' = Append(events, Event("exit", <<status>>))
    /\ runPc' = "remove"
    /\ UNCHANGED <<mergeVars, frames, loaderVars, runIn, tmpFile, cmd, delegated>>

\* the deferred function of RunGolangCILintWithConfig
DeferredRemove ==
    /\ runPc = "remove"
    /\ tmpFile' = IF runIn.debugMode THEN tmpFile ELSE [tmpFile EXCEPT !.state = "removed"]
    /\ runPc' = "done"
    /\ UNCHANGED <<mergeVars, frames, loaderVars, runIn, events, runRet, cmd, delegated>>

SpecRunner ==
    InitRunner /\ [][CreateTemp \/ WriteTemp \/ CloseTemp \/ StartLint \/ LintExit
                        \/ DeferredRemove]_vars

-----------------------------------------------------------------------------
(* cmd: runDelegatedGolangCILintCommand *)

\* lint.go line 68 and GolangCILintAssetRunner.RunGolangCILintWithConfig: the
\* arguments the runner is called with
delegatedRunIn(a) ==
    [ preConfigArgs |-> a.preConfigArgs,
      postConfigArgs |-> a.postConfigArgs,
      configContent |-> a.assetConfig,
      stdout |-> a.stderr,
      stderr |-> a.stdout,
      debugMode |-> a.debugMode ]

\* lines 69-76: return the error, or exit with the code of the runner
delegatedOutcome(d, r) ==
    IF r.err # NoErr THEN [d EXCEPT !.pc = "returned", !.err = r.err]
    ELSE [d EXCEPT !.pc = "exited", !.exitCode = r.code]

InitLint ==
    /\ MergeIdle
    /\ IdleExcept("lint")
    /\ delegated \in
          { [args |-> a, pc |-> "start", exitCode |-> 0, err |-> NoErr] :
              a \in [ preConfigArgs : {<<"run">>, <<"run", "-v">>},
                      postConfigArgs : {<<>>, <<"--enable-only", "errcheck">>, <<"--fix">>},
                      assetConfig : {Doc(S("2"), Absent, TRUE)},
                      stdout : Writers,
                      stderr : Writers,
                      debugMode : BOOLEAN ] }

\* runDelegatedGolangCILintCommand calls assetRunner.RunGolangCILintWithConfig
CallRunner ==
    /\ delegated.pc = "start"
    /\ delegated' = [delegated EXCEPT !.pc = "called"]
    /\ runIn' = delegatedRunIn(delegated.args)
    /\ runPc' = "create"
    /\ tmpFile' = [state |-> "absent", name |-> "", content |-> EmptyDoc]
    /\ runRet' = [code |-> 0, err |-> NoErr]
    /\ UNCHANGED <<mergeVars, frames, loaderVars, events, cmd>>

\* the runner has returned: the error is returned, or the process exits
DelegatedReturn ==
    /\ delegated.pc = "called" /\ runPc = "done"
    /\ delegated' = delegatedOutcome(delegated, runRet)
    /\ UNCHANGED <<mergeVars, frames, loaderVars, runIn, runPc, tmpFile, events, runRet, cmd>>

SpecLint ==
    InitLint /\ [][CallRunner \/ CreateTemp \/ WriteTemp \/ CloseTemp \/ StartLint
                      \/ LintExit \/ DeferredRemove \/ DelegatedReturn]_vars

-----------------------------------------------------------------------------
(* Reading documents in the properties *)

\* the entries of a mapping other than those of the keys in ks, in order
RECURSIVE Without(_, _)
Without(entries, ks) ==
    IF entries = <<>> THEN <<>>
    ELSE IF Head(entries).key \in ks THEN Without(Tail(entries), ks)
    ELSE <<Head(entries)>> \o Without(Tail(entries), ks)

FieldSegs(f) ==
    CASE f = "enable" -> <<"linters", "enable">>
      [] f = "disable" -> <<"linters", "disable">>
      [] f = "settings" -> <<"linters", "settings">>
      [] f = "rules" -> <<"linters", "exclusions", "rules">>
      [] f = "paths" -> <<"linters", "exclusions", "paths">>
      [] f = "pathsExcept" -> <<"linters", "exclusions", "paths-except">>

\* the items of the override list of field f as they are written to the document
FieldNodes(c, f) == IF f = "rules" THEN RuleNodes(c.rules) ELSE StrNodes(c[f])

\* the document the running call of MergePluginConfigWithConfig was given
CallInput == IF entry = "Default" /\ phase = "plugin" THEN defaultConfig ELSE baseConfig

\* MergePluginConfigWithConfig has returned a document
Merged == pc = "returned" /\ callRet.err = NoErr

-----------------------------------------------------------------------------
(* Properties *)

\* C1: list-append.  When MergePluginConfigWithConfig returns a document, for
\* each of the five list fields with a non-empty override list O and a base
\* whose target path holds a sequence B (or is absent, B empty), the sequence
\* at the target path is exactly B followed by O: nothing removed, reordered
\* or deduplicated.
C1_ListAppend ==
    (Merged /\ ~cfg.isNil) =>
        \A f \in ListFields :
            LET B == NodeAt(CallInput, FieldSegs(f))
                O == FieldNodes(cfg, f)
            IN  (Len(O) > 0 /\ (B = Absent \/ IsSeq(B))) =>
                    NodeAt(callRet.doc, FieldSegs(f)) = SeqN(ItemsOf(B) \o O)

\* a merge returned with an override list of two items, one of which the
\* non-empty base list already held
C1_Witness ==
    /\ Merged
    /\ \E f \in ListFields :
          LET B == NodeAt(CallInput, FieldSegs(f))
              O == FieldNodes(cfg, f)
          IN  /\ IsSeq(B) /\ Len(B.items) > 0 /\ Len(O) = 2
              /\ \E i \in 1..Len(O), j \in 1..Len(B.items) : O[i] = B.items[j]
              /\ Len(ItemsOf(NodeAt(callRet.doc, FieldSegs(f)))) = Len(B.items) + 2

\* the last step executed was a map merge: of settings in a merge, or a direct
\* call of applyAddOrSetYAMLMapPatch
MapMerged ==
    /\ log # <<>>
    /\ log[Len(log)].step \in {"settings", "mapPatch"}
    /\ log[Len(log)].err = NoErr

\* the override mapping, target path, base mapping and resulting mapping of it
MergedMap == IF entry = "MapPatch" THEN config.settings ELSE cfg.settings
MergedPath == IF entry = "MapPatch" THEN Tail(Split(argPath, "/")) ELSE FieldSegs("settings")
MapBefore == NodeAt(log[Len(log)].in, MergedPath)
MapAfter == NodeAt(log[Len(log)].out, MergedPath)
MergedKeys == {MergedMap[i].key : i \in 1..Len(MergedMap)}

\* C2: map-merge.  After a map merge of a non-empty override mapping S into a
\* target that holds a mapping M, the target mapping holds every key of M that
\* is not a key of S with its base value, and every key of S with the value S
\* gives it.
C2_MapMerge ==
    (MapMerged /\ IsMap(MapBefore) /\ MergedMap # <<>>) =>
        /\ IsMap(MapAfter)
        /\ \A k \in Keys(MapBefore) \ MergedKeys :
              HasKey(MapAfter, k) /\ Get(MapAfter, k) = Get(MapBefore, k)
        /\ \A i \in 1..Len(MergedMap) :
              /\ HasKey(MapAfter, MergedMap[i].key)
              /\ Get(MapAfter, MergedMap[i].key) = MergedMap[i].val

\* C3: the map-merge is shallow.  For a key k of both the base mapping and the
\* override mapping, the value at target/k after the merge is the override's
\* value for k, whole; every key of the base mapping that the override does
\* not have is untouched.
C3_Shallow ==
    (MapMerged /\ IsMap(MapBefore) /\ IsMap(MapAfter)) =>
        /\ \A i \in 1..Len(MergedMap) :
              MergedMap[i].key \in Keys(MapBefore) =>
                  /\ HasKey(MapAfter, MergedMap[i].key)
                  /\ Get(MapAfter, MergedMap[i].key) = MergedMap[i].val
        /\ \A k \in Keys(MapBefore) \ MergedKeys :
              HasKey(MapAfter, k) /\ Get(MapAfter, k) = Get(MapBefore, k)

AllEmpty(c) ==
    /\ c.enable = <<>> /\ c.disable = <<>> /\ c.settings = <<>>
    /\ c.rules = <<>> /\ c.paths = <<>> /\ c.pathsExcept = <<>>

\* C4: with an override that is nil or has every field empty (exclude matchers
\* with no names and no paths give a nil override), the document a merge
\* returns is the base with a version added when it had none: it is the base
\* itself when the base has a version, and nothing else is created or changed.
C4_EmptyOverride ==
    (Merged /\ AllEmpty(cfg)) =>
        IF HasKey(CallInput, "version") THEN callRet.doc = CallInput
        ELSE /\ IsMap(callRet.doc)
             /\ Without(callRet.doc.entries, {"version"}) = EntriesOf(CallInput)

\* an override that is not nil and has every field empty was merged into a
\* base with a linters mapping and no version
C4_Witness ==
    /\ Merged /\ ~cfg.isNil /\ AllEmpty(cfg)
    /\ HasKey(CallInput, "linters") /\ ~HasKey(CallInput, "version")
    /\ HasKey(callRet.doc, "version")

\* C5: version defaulting.  The document a merge returns has a root-level
\* version: "2" when the base had none, the base's own (null included) when it
\* had one, with an override or without; and the version is there before the
\* first merge step runs.
C5_Version ==
    /\ Merged =>
          /\ HasKey(callRet.doc, "version")
          /\ Get(callRet.doc, "version") =
                IF HasKey(CallInput, "version") THEN Get(CallInput, "version") ELSE S("2")
    /\ pc \in {MergeSteps[i] : i \in 1..Len(MergeSteps)} => HasKey(applied, "version")

\* a merge with no override returned for a base whose version is null
C5_Witness ==
    /\ Merged /\ cfg.isNil
    /\ HasKey(CallInput, "version") /\ Get(CallInput, "version") = Null
    /\ Get(callRet.doc, "version") = Null

\* the override configuration and the target path of a logged step, and the
\* node the step has to put at that path
StepCfg(e) ==
    IF e.call = "matchers"
    THEN (IF matchers = NoMatchers THEN NilCfg
          ELSE [EmptyCfg EXCEPT !.paths =
                   convertNamesPathConfigsToExclusionsPaths(matchers)])
    ELSE config
StepSegs(e) == IF e.step = "mapPatch" THEN Tail(Split(argPath, "/")) ELSE FieldSegs(e.step)
StepValue(e) ==
    IF e.step \in {"mapPatch", "settings"} THEN MapN(StepCfg(e).settings)
    ELSE SeqN(FieldNodes(StepCfg(e), e.step))
IsEmptyValue(n) == n = MapN(<<>>) \/ n = SeqN(<<>>)

\* the step e ran on a document that holds no segment of its target path and
\* had a value to merge
Synthesized(e) ==
    /\ e.step # "version" /\ e.err = NoErr
    /\ ~IsEmptyValue(StepValue(e))
    /\ e.in = EmptyDoc \/ (IsMap(e.in) /\ ~HasKey(e.in, StepSegs(e)[1]))

\* C6: path synthesis.  When a step merges a value V at a target path of which
\* the document holds no segment (only the root is there, or the document is
\* empty), the resulting document resolves the whole target path to V, and
\* the nodes the document had are all still there, with the same values and
\* in the same order, before the one node created.
C6_Synthesis ==
    \A i \in 1..Len(log) :
        Synthesized(log[i]) =>
            /\ IsMap(log[i].out)
            /\ NodeAt(log[i].out, StepSegs(log[i])) = StepValue(log[i])
            /\ Len(log[i].out.entries) = Len(EntriesOf(log[i].in)) + 1
            /\ SubSeq(log[i].out.entries, 1, Len(EntriesOf(log[i].in))) = EntriesOf(log[i].in)

\* a mapping was merged at a path of three segments into a document that has
\* other root-level nodes and none of the three segments
C6_Witness ==
    /\ pc = "done" /\ entry = "MapPatch" /\ ret.err = NoErr
    /\ Synthesized(log[1])
    /\ Len(StepSegs(log[1])) = 3
    /\ Len(EntriesOf(log[1].in)) >= 2
    /\ NodeAt(ret.doc, StepSegs(log[1])) = MapN(config.settings)

\* the steps of MergePluginConfigWithConfig in the order of the program text
StepOrder == <<"version", "enable", "disable", "settings", "rules", "paths", "pathsExcept">>
OrderIndex(step) == CHOOSE i \in 1..Len(StepOrder) : StepOrder[i] = step

\* the log entries i-1 and i belong to the same call of MergePluginConfigWithConfig
SameCall(i) == i > 1 /\ log[i].call = log[i - 1].call

\* C7: fixed order, cumulative.  A call of MergePluginConfigWithConfig starts
\* with the version default on the document it was given and runs the steps in
\* the order version, enable, disable, settings, rules, paths, paths-except;
\* each step runs on the document the step before it produced, and a call that
\* returns a document for a non-nil override has run all seven and returns the
\* document of the last.
C7_StepOrder ==
    entry # "MapPatch" =>
        /\ \A i \in 1..Len(log) :
              IF SameCall(i)
              THEN /\ log[i - 1].err = NoErr
                   /\ OrderIndex(log[i].step) = OrderIndex(log[i - 1].step) + 1
                   /\ log[i].in = log[i - 1].out
              ELSE log[i].step = "version"
        /\ (log # <<>> /\ log[Len(log)].call = phase) =>
              log[Len(log) - OrderIndex(log[Len(log)].step) + 1].in = CallInput
        /\ (Merged /\ ~cfg.isNil) =>
              /\ log[Len(log)].step = "pathsExcept"
              /\ callRet.doc = log[Len(log)].out

\* a call with every override field non-empty returned after its seven steps,
\* each of which changed the document
C7_Witness ==
    /\ Merged /\ ~cfg.isNil /\ Len(log) >= 7
    /\ \A i \in (Len(log) - 6)..Len(log) : log[i].out # log[i].in
    /\ log[Len(log) - 6].in = CallInput

\* C8: all-or-nothing.  When the version check or a step fails,
\* MergePluginConfigWithConfig returns the error and no document, and so does
\* DefaultPalantirConfigMergedWithExcludeMatchersAndPluginConfig when either
\* of its merges fails; a call that returns no error has no failed step.
C8_AllOrNothing ==
    /\ (pc \in {"returned", "done"} /\ entry # "MapPatch" /\ log[Len(log)].err # NoErr) =>
          /\ callRet.err # NoErr
          /\ callRet.doc = EmptyDoc
    /\ (pc = "done" /\ entry # "MapPatch" /\ callRet.err # NoErr) =>
          /\ ret.err # NoErr
          /\ ret.doc = EmptyDoc
    /\ (pc = "returned" /\ callRet.err = NoErr) =>
          \A i \in 1..Len(log) : log[i].err = NoErr

\* the second merge of the Default entry failed in a step after steps that had
\* changed the document, and the entry returned the error and no document
C8_Witness ==
    /\ pc = "done" /\ entry = "Default" /\ phase = "plugin"
    /\ ret.err # NoErr /\ ret.doc = EmptyDoc
    /\ Len(log) >= 3
    /\ log[Len(log)].err # NoErr
    /\ log[Len(log)].step # "version"
    /\ log[Len(log)].in # defaultConfig
    /\ defaultConfig # baseConfig

\* the patterns the names and the paths of exclude matchers are lowered to
NamePair(n) == << <<".+/">> \o n \o <<"$">>, <<"^">> \o n \o <<"$">> >>
PathPair(q) == << q \o <<"/.*">>, <<"^">> \o q \o <<"$">> >>
Lowered(m) ==
    [i \in 1..(2 * Len(m.names) + 2 * Len(m.paths)) |->
        IF i <= 2 * Len(m.names)
        THEN NamePair(m.names[(i + 1) \div 2])[2 - (i % 2)]
        ELSE PathPair(m.paths[(i - 2 * Len(m.names) + 1) \div 2])[2 - (i % 2)]]

\* the first merge of the Default entry has been called and has not returned
InFirstMerge == entry = "Default" /\ phase = "matchers" /\ pc # "start"

\* C9: exclusion-matcher lowering.  For matchers with names N and paths P the
\* override configuration of the first merge holds, as its exclusion paths and
\* nothing else, 2|N| + 2|P| patterns: per name, in order, ".+/n$" then "^n$",
\* and after them per path, in order, "p/.*" then "^p$"; with no name and no
\* path the override configuration is nil.
C9_Lowering ==
    InFirstMerge =>
        /\ convertNamesPathConfigsToExclusionsPaths(matchers) = Lowered(matchers)
        /\ Len(convertNamesPathConfigsToExclusionsPaths(matchers))
              = 2 * Len(matchers.names) + 2 * Len(matchers.paths)
        /\ IF matchers.names = <<>> /\ matchers.paths = <<>>
           THEN cfg = NilCfg
           ELSE cfg = [EmptyCfg EXCEPT !.paths = Lowered(matchers)]

\* matchers with two different names and a path were lowered
C9_Witness ==
    /\ InFirstMerge
    /\ Len(matchers.names) = 2 /\ matchers.names[1] # matchers.names[2]
    /\ Len(matchers.paths) >= 1
    /\ Len(cfg.paths) = 6
    /\ cfg.paths[3] = <<".+/">> \o matchers.names[2] \o <<"$">>
    /\ cfg.paths[5] = matchers.paths[1] \o <<"/.*">>

BasePaths == NodeAt(baseConfig, FieldSegs("paths"))
AddedPaths == StrNodes(Lowered(matchers)) \o StrNodes(config.paths)

\* C10: the Default entry merges the exclude matchers first and the plugin
\* configuration into the result.  When it returns a document, the sequence
\* at linters.exclusions.paths is the base's paths, then the patterns lowered
\* from the matchers, then the paths of the plugin configuration, each group
\* in its order; with nothing to add the base's node is as it was.
C10_PathsOrder ==
    (pc = "done" /\ entry = "Default" /\ ret.err = NoErr) =>
        NodeAt(ret.doc, FieldSegs("paths")) =
            IF AddedPaths = <<>> THEN BasePaths
            ELSE SeqN(ItemsOf(BasePaths) \o AddedPaths)

\* the Default entry returned for a base with paths, matchers with a name and
\* a path, and a plugin configuration with two paths
C10_Witness ==
    /\ pc = "done" /\ entry = "Default" /\ ret.err = NoErr
    /\ IsSeq(BasePaths) /\ Len(BasePaths.items) >= 1
    /\ Len(matchers.names) >= 1 /\ Len(matchers.paths) >= 1
    /\ Len(config.paths) = 2
    /\ Len(ItemsOf(NodeAt(ret.doc, FieldSegs("paths"))))
          = Len(BasePaths.items) + Len(Lowered(matchers)) + 2

\* the key segments of a path string, and whether every one of them is a key
PathSegs(str) == Tail(Split(str, "/"))
WellFormed(str) == str = <<"/">> \/ \A i \in 1..Len(PathSegs(str)) : PathSegs(str)[i] # ""
Parseable(doc) == doc # BadDoc

\* the document has a node at the path
PresentAt(doc, str) ==
    /\ IsMap(doc)
    /\ (str = <<"/">> \/ NodeAt(doc, PathSegs(str)) # Absent)

Checked == entry = "Check" /\ pc = "done"

\* C11: node existence check.  For a parseable document and a well-formed
\* path, checkNodeExists returns true when the document has a node at the
\* path (a null node included) and false, with no error, when it has none;
\* it returns an error only for a path that cannot be parsed or a document
\* that cannot be read.
C11_Exists ==
    Checked =>
        /\ (Parseable(baseConfig) /\ WellFormed(argPath)) =>
              /\ ret.err = NoErr
              /\ ret.exists = PresentAt(baseConfig, argPath)
        /\ ret.err # NoErr => (~Parseable(baseConfig) \/ ~WellFormed(argPath))

\* res is what MergePluginConfigWithConfig returns for the override c when it
\* runs alone and has reached, with the document doc, the step after the
\* i-th of StepOrder
RECURSIVE SoloFrom(_, _, _, _)
SoloFrom(doc, c, i, res) ==
    IF i = Len(StepOrder) THEN res = Ret(doc, NoErr)
    ELSE \E r \in {mergeStep(StepOrder[i + 1], doc, c)} :
            IF r.err # NoErr THEN res = Ret(EmptyDoc, r.err)
            ELSE SoloFrom(r.doc, c, i + 1, res)

\* res is what MergePluginConfigWithConfig(b, c) returns when it runs alone
IsSolo(b, c, res) ==
    \E r \in {versionDefault(b)} :
        IF r.err # NoErr THEN res = Ret(EmptyDoc, r.err)
        ELSE IF c.isNil THEN res = Ret(r.doc, NoErr)
        ELSE SoloFrom(r.doc, c, 1, res)

\* C12: concurrent invocations do not interfere.  Whatever the interleaving
\* of the steps of the callers, the result a caller gets is the result the
\* call gives when it runs alone on the caller's base and override.
C12_NoInterference ==
    \A c \in Callers :
        frames[c].pc = "done" => IsSolo(frames[c].base, frames[c].cfg, frames[c].ret)

\* two invocations with different inputs overlapped (each was called before
\* the other returned) and both returned a document they had changed
C12_Witness ==
    /\ \A c \in Callers :
          /\ frames[c].pc = "done" /\ frames[c].seen = {}
          /\ frames[c].ret.err = NoErr /\ frames[c].ret.doc # frames[c].base
          /\ ~frames[c].cfg.isNil
    /\ frames["a"].base # frames["b"].base
    /\ frames["a"].cfg # frames["b"].cfg

\* two invocations with equal inputs have returned equal results
SameResults ==
    \A c, d \in Callers :
        (/\ frames[c].pc = "done" /\ frames[d].pc = "done"
         /\ frames[c].base = frames[d].base /\ frames[c].cfg = frames[d].cfg)
            => frames[c].ret = frames[d].ret

\* a step leaves the base document and the override of every caller as they are
InputsKept ==
    \A c \in Callers : frames'[c].base = frames[c].base /\ frames'[c].cfg = frames[c].cfg

-----------------------------------------------------------------------------
(* GetAssetInfo *)

\* the positions of the provided assets that verify as a golangci-lint executable
LintAt == {i \in 1..Len(assets) : verifyGolangCILintAsset(assets[i])}
\* the positions of the provided assets that verify as a YAML config asset
ConfigAt == {i \in 1..Len(assets) : assets[i].readable /\ assets[i].content # BadDoc}
Returned == assetRet.err \notin {"idle", "running"}

\* C14: GetAssetInfo succeeds iff exactly one of the provided assets verifies as a
\* golangci-lint executable and at most one as a config asset; on success the path
\* is that executable and the provided config is the content of the single config
\* asset, or nil when there is none; otherwise an error is returned
C14_AssetInfo ==
    Returned =>
        /\ (assetRet.err = NoErr) <=> (Cardinality(LintAt) = 1 /\ Cardinality(ConfigAt) <= 1)
        /\ assetRet.err = NoErr =>
              /\ \A i \in LintAt : assetRet.info.GolangCILintAssetPath = assets[i].path
              /\ \A i \in ConfigAt : assetRet.info.ConfigProvidedByAsset = assets[i].content
              /\ ConfigAt = {} => assetRet.info.ConfigProvidedByAsset = NilBytes

\* a success with one executable and one config asset among three assets
C14_Witness ==
    /\ Returned /\ assetRet.err = NoErr
    /\ Len(assets) = 3
    /\ Cardinality(ConfigAt) = 1
    /\ LintAt # ConfigAt

-----------------------------------------------------------------------------
(* RunGolangCILintWithConfig *)

StartAt == {i \in DOMAIN events : events[i].ev = "start"}
Finished == \E i \in DOMAIN events : events[i].ev = "exit"
WriteFailed == \E i \in DOMAIN events : events[i].ev \in {"create failed", "write failed"}

\* C15: when golangci-lint is started the configuration has been written to the
\* temporary file, which is passed with --config between the pre-config and the
\* post-config arguments; after the process has finished the file is removed when
\* debug mode is off and still present when it is on; if writing the file fails
\* golangci-lint is never started and an error is returned
C15_TempConfig ==
    /\ \A i \in StartAt :
          /\ events[i].file.state = "closed"
          /\ events[i].file.content = runIn.configContent
          /\ events[i].file.name \in TempNames
          /\ events[i].args =
                runIn.preConfigArgs \o <<"--config", events[i].file.name>> \o runIn.postConfigArgs
    /\ (runPc = "done" /\ Finished) =>
          /\ tmpFile.content = runIn.configContent
          /\ tmpFile.state = IF runIn.debugMode THEN "closed" ELSE "removed"
    /\ WriteFailed => StartAt = {}
    /\ (runPc = "done" /\ WriteFailed) => runRet.err # NoErr

\* a finished run with arguments on both sides of the config flag, in debug mode
C15_Witness ==
    /\ runPc = "done" /\ Finished
    /\ runIn.debugMode
    /\ runIn.preConfigArgs # <<>> /\ Len(runIn.postConfigArgs) = 2
    /\ runRet = [code |-> 3, err |-> NoErr]

-----------------------------------------------------------------------------
(* The patches of the merge steps *)

\* the patch the builder made in the logged step e: [err, patch]
StepPatch(e) ==
    IF e.step \in {"mapPatch", "settings"}
    THEN createSetYAMLMapValuePatch(e.in,
             IF e.step = "mapPatch" THEN argPath ELSE PathSettings, StepCfg(e).settings)
    ELSE createAddYAMLSlicePatch(e.in,
             CASE e.step = "enable" -> PathEnable
               [] e.step = "disable" -> PathDisable
               [] e.step = "rules" -> PathRules
               [] e.step = "paths" -> PathPaths
               [] e.step = "pathsExcept" -> PathPathsExcept,
             FieldNodes(StepCfg(e), e.step))

\* the step e built a patch for a value and a document
Built(e) == e.step # "version" /\ ~IsEmptyValue(StepValue(e)) /\ StepPatch(e).err = NoErr

\* the target path of the step e does not exist in the mapping it ran on
TargetMissing(e) == Built(e) /\ IsMap(e.in) /\ NodeAt(e.in, StepSegs(e)) = Absent

\* the number of segments of the shortest prefix of segs that doc does not hold
FirstMissing(doc, segs) ==
    CHOOSE k \in 1..Len(segs) :
        /\ NodeAt(doc, SubSeq(segs, 1, k)) = Absent
        /\ \A j \in 1..(k - 1) : NodeAt(doc, SubSeq(segs, 1, j)) # Absent

\* value wrapped, from the leaf outward, in one single-entry mapping per
\* segment from the last down to the k-th
RECURSIVE Wrapped(_, _, _)
Wrapped(segs, k, value) ==
    IF k > Len(segs) THEN value
    ELSE MapN(<<Entry(segs[k], Wrapped(segs, k + 1, value))>>)

\* the parsed path of the first k segments of segs
PrefixPath(segs, k) == <<"">> \o SubSeq(segs, 1, k)

\* C16 as stated: when the target path does not exist, the patch is one Add
\* whose path is the deepest existing ancestor and whose value is the leaf
\* value wrapped in the segments from the last down to the first missing one
C16_AddAtAncestor ==
    \A i \in 1..Len(log) :
        TargetMissing(log[i]) =>
            StepPatch(log[i]).patch =
                <<Op("add",
                     PrefixPath(StepSegs(log[i]), FirstMissing(log[i].in, StepSegs(log[i])) - 1),
                     Wrapped(StepSegs(log[i]), FirstMissing(log[i].in, StepSegs(log[i])),
                             StepValue(log[i])))>>

\* C16, amended: when the target path does not exist, the patch is one Add
\* whose path is the first missing prefix and whose value is the leaf value
\* wrapped in the segments after it, from the last down; on an empty document
\* the path is the root and the value is wrapped in every segment
C16_AddAtFirstMissing ==
    \A i \in 1..Len(log) :
        /\ TargetMissing(log[i]) =>
              StepPatch(log[i]).patch =
                  <<Op("add",
                       PrefixPath(StepSegs(log[i]), FirstMissing(log[i].in, StepSegs(log[i]))),
                       Wrapped(StepSegs(log[i]),
                               FirstMissing(log[i].in, StepSegs(log[i])) + 1,
                               StepValue(log[i])))>>
        /\ (Built(log[i]) /\ log[i].in = EmptyDoc) =>
              StepPatch(log[i]).patch =
                  <<Op("add", <<"">>, Wrapped(StepSegs(log[i]), 1, StepValue(log[i])))>>

\* a step whose target has an existing parent below the root and two missing
\* segments
C16_Witness ==
    \E i \in 1..Len(log) :
        /\ TargetMissing(log[i])
        /\ FirstMissing(log[i].in, StepSegs(log[i])) = 2
        /\ Len(StepSegs(log[i])) = 3
        /\ log[i].err = NoErr

\* the document the j-th operation of the patch of step e is applied to, or
\* Fail when an earlier operation failed
DocAt(e, j) == ApplyFrom(e.in, SubSeq(StepPatch(e).patch, 1, j - 1), 1)

\* the node above the one the operation op names is in doc; the root has none
ParentIn(doc, op) ==
    Len(op.path) <= 1 \/ NodeAt(doc, SubSeq(op.path, 2, Len(op.path) - 1)) # Absent

\* C17: when the target path of a list-append or map-merge does not exist the
\* patch is exactly one operation, an Add, and not one of the per-key or
\* per-item operations below the target; and the parent node of every
\* operation of every patch exists in the document the operation is applied to
C17_ParentExists ==
    \A i \in 1..Len(log) :
        /\ TargetMissing(log[i]) =>
              /\ Len(StepPatch(log[i]).patch) = 1
              /\ StepPatch(log[i]).patch[1].type = "add"
              /\ Len(StepPatch(log[i]).patch[1].path) <= Len(StepSegs(log[i])) + 1
        /\ Built(log[i]) =>
              \A j \in 1..Len(StepPatch(log[i]).patch) :
                  DocAt(log[i], j) # Fail =>
                      ParentIn(DocAt(log[i], j), StepPatch(log[i]).patch[j])

\* the step e merged a mapping at a target path the document holds
MapTargetThere(e) ==
    /\ e.step \in {"mapPatch", "settings"} /\ Built(e)
    /\ IsMap(e.in) /\ NodeAt(e.in, StepSegs(e)) # Absent

\* the segments the path text target/key has below the target
KeySegs(k) == Split(Chars(k), "/")

TargetIn(doc, op) == doc # EmptyDoc /\ NodeAt(doc, Tail(op.path)) # Absent

\* C19: every Replace that reaches the patch applier names a path that exists
\* in the document at the moment the operation is applied
C19_ReplaceExists ==
    \A i \in 1..Len(log) :
        Built(log[i]) =>
            \A j \in 1..Len(StepPatch(log[i]).patch) :
                (StepPatch(log[i]).patch[j].type = "replace" /\ DocAt(log[i], j) # Fail) =>
                    TargetIn(DocAt(log[i], j), StepPatch(log[i]).patch[j])

-----------------------------------------------------------------------------
(* Settings keys that are not strings *)

\* the settings of the override configuration c have a key that is not a string
BadKey(c) == \E j \in 1..Len(c.settings) : c.settings[j].key \in NonStringKeys

\* the logged step e applied a patch that changed the document
Patched(e) == e.err = NoErr /\ e.out # e.in

\* C20 as stated: a settings key that is not a string makes the merge fail
\* with the validation error, before any patch was applied to the document
C20_KeyBeforeAnyPatch ==
    (pc = "done" /\ entry = "Merge" /\ BadKey(config)) =>
        /\ ret.err = "key"
        /\ \A i \in 1..Len(log) : ~Patched(log[i])

\* C20, amended: a settings key that is not a string makes the merge fail and
\* return no document; the map-merge of the settings fails while its patch is
\* built, so that no operation of that patch is applied, and a validation error
\* ends the merge; the patches of earlier steps have been applied by then
C20_KeyFails ==
    /\ (pc = "done" /\ BadKey(config)) => (ret.err # NoErr /\ ret.doc = EmptyDoc)
    /\ \A i \in 1..Len(log) :
          /\ (log[i].step \in {"settings", "mapPatch"} /\ BadKey(StepCfg(log[i]))) =>
                /\ log[i].err \notin {NoErr, "apply"}
                /\ StepPatch(log[i]) = [err |-> log[i].err, patch |-> <<>>]
          /\ log[i].err = "key" =>
                /\ i = Len(log)
                /\ log[i].step \in {"settings", "mapPatch"}
                /\ BadKey(StepCfg(log[i]))

\* a merge that failed with the validation error in its settings step after
\* an earlier step had changed the document
C20_Witness ==
    /\ pc = "done" /\ entry = "Merge" /\ BadKey(config)
    /\ ret.err = "key"
    /\ log[Len(log)].step = "settings"
    /\ \E i \in 1..Len(log) : Patched(log[i])

-----------------------------------------------------------------------------
(* addOrSetYAMLPatch *)

\* addOrSetYAMLPatch has returned to its caller
BuildReturned == entry = "Build" /\ pc \in {"built", "done"}

\* C21: addOrSetYAMLPatch called with the root path returns an error and no
\* patch, for every document and value, and nothing is applied to the document
C21_RootRejected ==
    (BuildReturned /\ argPath = <<"/">>) =>
        /\ callRet.err # NoErr
        /\ callRet.patch = <<>>
        /\ pc = "done" => (ret.err # NoErr /\ ret.doc = EmptyDoc)

\* the root path was given with a document that has nodes, and the caller is done
C21_Witness ==
    /\ entry = "Build" /\ pc = "done"
    /\ argPath = <<"/">>
    /\ IsMap(baseConfig) /\ HasKey(baseConfig, "linters")
    /\ callRet.err = "root"

-----------------------------------------------------------------------------
(* Documents that cannot be parsed *)

\* MergePluginConfigWithConfig was called with a document that cannot be
\* parsed and has returned
BadBaseReturned ==
    /\ entry \in {"Merge", "Default"} /\ baseConfig = BadDoc
    /\ pc \in {"returned", "done"}

\* C22: a base document that cannot be parsed makes MergePluginConfigWithConfig
\* fail at the version existence check: the error is the one of reading the
\* document, the version Add is not applied and none of the six merge steps
\* runs, whatever the override
C22_BadDocument ==
    BadBaseReturned =>
        /\ Len(log) = 1
        /\ log[1] = [call |-> log[1].call, step |-> "version", in |-> BadDoc,
                     out |-> EmptyDoc, err |-> "read"]
        /\ callRet = Ret(EmptyDoc, "read")
        /\ pc = "done" => ret = Ret(EmptyDoc, "read")

\* the call with a nil override has returned
C22_Witness ==
    /\ BadBaseReturned /\ entry = "Merge" /\ pc = "done"
    /\ config.isNil

\* the call with an override of several fields has returned
C22_WitnessOverride ==
    /\ BadBaseReturned /\ pc = "done"
    /\ config.enable # <<>> /\ config.settings # <<>>

-----------------------------------------------------------------------------
(* What the steps of one merge leave of each other *)

\* the logged step e of the running call had a value to merge
Wrote(e) == e.call = phase /\ e.step # "version" /\ ~IsEmptyValue(StepValue(e))

\* the sequence items ends with the sequence tail
EndsWith(items, tail) ==
    /\ Len(items) >= Len(tail)
    /\ SubSeq(items, Len(items) - Len(tail) + 1, Len(items)) = tail

\* C23: after a full merge the target path of every non-empty field holds what
\* its own step left there, and a list field ends with the items of the
\* override: no later step removed or overwrote it
C23_StepsKept ==
    (pc = "returned" /\ callRet.err = NoErr) =>
        \A i \in 1..Len(log) :
            Wrote(log[i]) =>
                /\ NodeAt(callRet.doc, StepSegs(log[i])) # Absent
                /\ NodeAt(callRet.doc, StepSegs(log[i])) = NodeAt(log[i].out, StepSegs(log[i]))
                /\ log[i].step # "settings" =>
                      EndsWith(ItemsOf(NodeAt(callRet.doc, StepSegs(log[i]))),
                               FieldNodes(StepCfg(log[i]), log[i].step))

\* a merge of an override with all six fields into a document that had no
\* linters node
C23_Witness ==
    /\ pc = "returned" /\ callRet.err = NoErr /\ entry = "Merge"
    /\ IsMap(baseConfig) /\ ~HasKey(baseConfig, "linters")
    /\ Cardinality({i \in 1..Len(log) : Wrote(log[i])}) = 6

-----------------------------------------------------------------------------
(* The lists of the fields are independent *)

\* the items of the list of field f in doc
ListAt(doc, f) == ItemsOf(NodeAt(doc, FieldSegs(f)))

\* the items of the sequence items
ItemSet(items) == {items[j] : j \in 1..Len(items)}

\* the linter names the running call was given in the document's enable list
\* and in the override's disable list
EnabledAndDisabled ==
    ItemSet(ListAt(log[1].in, "enable")) \cap ItemSet(StrNodes(cfg.disable))

\* C24: a step that succeeds leaves the list of every other field as it was;
\* a name in the base's enable list and in the override's disable list is in
\* linters.enable after the merge and has been appended to linters.disable
C24_Independent ==
    /\ \A i \in 1..Len(log) :
          (log[i].step \notin {"version", "mapPatch"} /\ log[i].err = NoErr) =>
              \A g \in ListFields \ {log[i].step} :
                  NodeAt(log[i].out, FieldSegs(g)) = NodeAt(log[i].in, FieldSegs(g))
    /\ (entry = "Merge" /\ pc = "returned" /\ callRet.err = NoErr) =>
          /\ EnabledAndDisabled \subseteq ItemSet(ListAt(callRet.doc, "enable"))
          /\ EndsWith(ListAt(callRet.doc, "disable"), StrNodes(cfg.disable))
          /\ SubSeq(ListAt(callRet.doc, "enable"), 1, Len(ListAt(log[1].in, "enable")))
                = ListAt(log[1].in, "enable")

\* the merge of an override that disables a linter the document enables
C24_Witness ==
    /\ entry = "Merge" /\ pc = "returned" /\ callRet.err = NoErr
    /\ S("compiles") \in EnabledAndDisabled
    /\ cfg.enable # <<>>

-----------------------------------------------------------------------------
(* runDelegatedGolangCILintCommand *)

\* golangci-lint has been started on behalf of runDelegatedGolangCILintCommand
DelegatedStarted == delegated.pc # "idle" /\ StartAt # {}

\* C25: the standard output of the golangci-lint process is the stdout writer
\* given to runDelegatedGolangCILintCommand and its standard error the stderr
\* writer given to it
C25_Streams ==
    DelegatedStarted =>
        /\ cmd.Stdout = delegated.args.stdout
        /\ cmd.Stderr = delegated.args.stderr

\* the positions of the events of golangci-lint exiting
ExitAt == {i \in DOMAIN events : events[i].ev = "exit"}
\* the configuration file could not be written
ConfigFailed ==
    \E i \in DOMAIN events : events[i].ev \in {"create failed", "write failed", "close failed"}

\* C26: the runner returns the exit status of the golangci-lint process (0
\* when it succeeds) and 1 when the process could not be run;
\* runDelegatedGolangCILintCommand exits with that code, and returns an error
\* instead exactly when the configuration file could not be written
C26_ExitCode ==
    /\ (runPc \in {"remove", "done"} /\ StartAt # {}) =>
          /\ runRet.err = NoErr
          /\ \A i \in ExitAt : runRet.code = events[i].args[1]
          /\ ExitAt = {} => runRet.code = 1
    /\ delegated.pc = "exited" =>
          /\ ~ConfigFailed /\ StartAt # {}
          /\ delegated.exitCode = runRet.code
    /\ delegated.pc = "returned" =>
          /\ ConfigFailed /\ StartAt = {}
          /\ delegated.err # NoErr

\* golangci-lint exited with status 3 and so did the plugin
C26_Witness ==
    /\ delegated.pc = "exited"
    /\ delegated.exitCode = 3
    /\ \E i \in ExitAt : events[i].args = <<3>>

-----------------------------------------------------------------------------
(* The prefix walk of addOrSetYAMLPatch *)

\* the value addOrSetYAMLPatch was given
BuildValue == SeqN(StrNodes(config.enable))

\* addOrSetYAMLPatch reached the synthesis: the path has a segment after the
\* root and the target does not exist
SynthesisReached ==
    /\ BuildReturned
    /\ ParsePath(argPath).err = NoErr /\ Len(ParsePath(argPath).path) > 1
    /\ checkNodeExists(baseConfig, argPath) = [err |-> NoErr, exists |-> FALSE]

\* where the walk over the prefixes of the target path stopped
Walked == WalkPath(baseConfig, ParsePath(argPath).path, 0, <<>>)

\* C27: when addOrSetYAMLPatch reaches the synthesis, the walk stops at a
\* missing prefix whose index is within the parsed path; the list of
\* createObjectsToAddForPath has one entry per element of the parsed path and
\* its entry i is the value wrapped in the segments after index i; adding it
\* at the prefix ending at index i makes the target path resolve to the value
C27_WalkIndex ==
    SynthesisReached =>
        /\ Walked.err = NoErr
        /\ Walked.furthestExistingIdx \in 0..(Len(ParsePath(argPath).path) - 1)
        /\ checkNodeExists(baseConfig, Walked.pathSoFar) = [err |-> NoErr, exists |-> FALSE]
        /\ Len(createObjectsToAddForPath(argPath, BuildValue)) = Len(ParsePath(argPath).path)
        /\ \A i \in 0..(Len(ParsePath(argPath).path) - 1) :
              createObjectsToAddForPath(argPath, BuildValue)[i + 1]
                  = Wrapped(ParsePath(argPath).path, i + 2, BuildValue)
        /\ callRet.err = NoErr
        /\ pc = "done" =>
              /\ ret.err = NoErr
              /\ NodeAt(ret.doc, Tail(ParsePath(argPath).path)) = BuildValue

\* the walk stopped at the second of three segments and the patch was applied
C27_Witness ==
    /\ SynthesisReached /\ pc = "done"
    /\ Len(ParsePath(argPath).path) = 4
    /\ Walked.furthestExistingIdx = 2
    /\ ret.err = NoErr

=============================================================================
